---- MODULE Spec2Model ----
(***************************************************************************)
(* Filing acquisition (tools/sec_fetcher.py, SECFetcher) and structured    *)
(* extraction (tools/ade_extractor.py, LandingAISDKExtractor).             *)
(*                                                                         *)
(* Python text is a tuple of one-character strings, so that upper(),       *)
(* lower(), replace(), endswith(), zfill() and the regular expressions are *)
(* computed character by character.  A Python value that may be None is    *)
(* PyNone or Str(text); a JSON number is Num(n) or Ratio(n, d).            *)
(***************************************************************************)
EXTENDS Integers, Sequences, FiniteSets, TLC

(* ------------------------------ text ---------------------------------- *)

UpperCase == <<"A","B","C","D","E","F","G","H","I","J","K","L","M","N","O","P","Q","R","S","T","U","V","W","X","Y","Z">>

LowerCase == <<"a","b","c","d","e","f","g","h","i","j","k","l","m","n","o","p","q","r","s","t","u","v","w","x","y","z">>

Digits == <<"0","1","2","3","4","5","6","7","8","9">>

IsUpper(c) == \E i \in 1..Len(UpperCase) : UpperCase[i] = c

IsLower(c) == \E i \in 1..Len(LowerCase) : LowerCase[i] = c

IsDigit(c) == \E i \in 1..Len(Digits) : Digits[i] = c

LowerChar(c) ==
    IF IsUpper(c) THEN LowerCase[CHOOSE i \in 1..Len(UpperCase) : UpperCase[i] = c] ELSE c

UpperChar(c) ==
    IF IsLower(c) THEN UpperCase[CHOOSE i \in 1..Len(LowerCase) : LowerCase[i] = c] ELSE c

\* str.lower()
lower(s) == [i \in 1..Len(s) |-> LowerChar(s[i])]

\* str.upper()
upper(s) == [i \in 1..Len(s) |-> UpperChar(s[i])]

\* str.endswith(suffix)
endswith(s, suffix) ==
    /\ Len(s) >= Len(suffix)
    /\ SubSeq(s, Len(s) - Len(suffix) + 1, Len(s)) = suffix

\* str.startswith(prefix), and the same test at position i
OccursAt(s, i, pat) ==
    /\ i + Len(pat) - 1 <= Len(s)
    /\ SubSeq(s, i, i + Len(pat) - 1) = pat

startswith(s, prefix) == OccursAt(s, 1, prefix)

RECURSIVE ReplaceFrom(_, _, _, _)
ReplaceFrom(s, i, old, new) ==
    IF i > Len(s) THEN <<>>
    ELSE IF OccursAt(s, i, old) THEN new \o ReplaceFrom(s, i + Len(old), old, new)
    ELSE <<s[i]>> \o ReplaceFrom(s, i + 1, old, new)

\* str.replace(old, new): every non-overlapping occurrence, left to right
replace(s, old, new) == ReplaceFrom(s, 1, old, new)

\* os.path.basename(p): what follows the last "/"
basename(p) ==
    LET slashes == {i \in 1..Len(p) : p[i] = "/"}
        last == IF slashes = {} THEN 0
                ELSE CHOOSE i \in slashes : \A j \in slashes : j <= i
    IN  SubSeq(p, last + 1, Len(p))

(* --------------------------- Python values ---------------------------- *)

PyNone == [none |-> TRUE]

Str(s) == [str |-> s]

RECURSIVE Gcd(_, _)
Gcd(a, b) == IF b = 0 THEN a ELSE Gcd(b, a % b)

\* the number n/d in lowest terms (n >= 0, d > 0)
Ratio(n, d) == [n |-> n \div Gcd(n, d), d |-> d \div Gcd(n, d)]

Num(n) == [n |-> n, d |-> 1]

IsNumber(v) == DOMAIN v = {"n", "d"}

\* dict.get(key, default)
Get(dict, key, default) == IF key \in DOMAIN dict THEN dict[key] ELSE default

\* d1.update(d2)
Update(d1, d2) ==
    [k \in (DOMAIN d1) \cup (DOMAIN d2) |-> IF k \in DOMAIN d2 THEN d2[k] ELSE d1[k]]

EmptyDict == [k \in {} |-> PyNone]

(* ------------------- extractor: records and defaults ------------------ *)
(* 10-K amounts are counted in units of 10,000 (dollars, shares): every    *)
(* amount of the demo record is a multiple of it, and 383285000000 is      *)
(* Num(38328500).                                                          *)

\* _get_default_10k_data
_get_default_10k_data ==
    [ revenue_current    |-> Num(0),
      revenue_prior_1    |-> Num(0),
      revenue_prior_2    |-> Num(0),
      operating_income   |-> Num(0),
      net_income_current |-> Num(0),
      net_income_prior_1 |-> Num(0),
      total_assets       |-> Num(0),
      total_liabilities  |-> Num(0),
      shareholders_equity |-> Num(0),
      cash_equivalents   |-> Num(0),
      total_debt         |-> Num(0),
      shares_outstanding |-> Num(0) ]

\* _get_default_proxy_data
_get_default_proxy_data ==
    [ ceo_total_comp_current  |-> Num(0),
      ceo_total_comp_prior_1  |-> Num(0),
      ceo_base_salary         |-> Num(0),
      ceo_bonus               |-> Num(0),
      ceo_stock_awards        |-> Num(0),
      say_on_pay_approval_pct |-> Num(0),
      board_size              |-> Num(0),
      independent_directors   |-> Num(0),
      average_director_tenure |-> Num(0),
      board_members           |-> <<>> ]

\* the default of the '8k' key (lines 305 and 317)
Default8k == [recent_events |-> <<>>]

AAPL == <<"A","A","P","L">>

\* demo_companies of _get_complete_demo_data: one company, keyed by its ticker
demo_companies ==
    [ t \in {AAPL} |->
      ( "10k" :>
          [ revenue_current    |-> Num(38328500),
            revenue_prior_1    |-> Num(39432800),
            revenue_prior_2    |-> Num(36581700),
            operating_income   |-> Num(11430100),
            net_income_current |-> Num(9699500),
            net_income_prior_1 |-> Num(9980300),
            total_assets       |-> Num(35275500),
            total_liabilities  |-> Num(29043700),
            shareholders_equity |-> Num(6214600),
            cash_equivalents   |-> Num(2996500),
            total_debt         |-> Num(11108800),
            shares_outstanding |-> Num(1544188) ] ) @@
      ( "proxy" :>
          [ ceo_total_comp_current  |-> Num(63209230),
            ceo_total_comp_prior_1  |-> Num(99420000),
            ceo_base_salary         |-> Num(3000000),
            ceo_bonus               |-> Num(0),
            ceo_stock_awards        |-> Num(52000000),
            say_on_pay_approval_pct |-> Ratio(954, 10),
            board_size              |-> Num(8),
            independent_directors   |-> Num(7),
            average_director_tenure |-> Ratio(125, 10),
            board_members           |->
                << [name |-> "Tim Cook", role |-> "CEO", independent |-> FALSE,
                    tenure_years |-> Num(12)] >> ] ) @@
      ( "8k" :> [recent_events |-> <<"Q4 earnings release", "Product announcement">>] ) ]

\* the keys '10k', 'proxy', '8k' of the merged dictionary
ResultKeys == {"10k", "proxy", "8k"}

\* _get_complete_demo_data with demo_companies[ticker] and no AAPL fallback:
\* an unknown ticker gets empty (zero) records
_get_complete_demo_data_by_ticker(cur_ticker) ==
    LET ticker == IF cur_ticker = PyNone \/ cur_ticker = Str(<<>>) THEN AAPL
                  ELSE cur_ticker.str
    IN  IF ticker \in DOMAIN demo_companies THEN demo_companies[ticker]
        ELSE ("10k" :> _get_default_10k_data) @@ ("proxy" :> _get_default_proxy_data)
               @@ ("8k" :> Default8k)

\* _get_complete_demo_data returning the zero defaults when no ticker was stored
_get_complete_demo_data_zero(cur_ticker) ==
    IF cur_ticker = PyNone
    THEN ("10k" :> _get_default_10k_data) @@ ("proxy" :> _get_default_proxy_data)
           @@ ("8k" :> Default8k)
    ELSE demo_companies[AAPL]

\* _get_complete_demo_data: ticker = self.current_ticker or 'AAPL';
\* demo_companies.get(ticker, demo_companies['AAPL'])
_get_complete_demo_data(cur_ticker) ==
    LET ticker == IF cur_ticker = PyNone \/ cur_ticker = Str(<<>>) THEN AAPL
                  ELSE cur_ticker.str
    IN  IF ticker \in DOMAIN demo_companies THEN demo_companies[ticker]
        ELSE demo_companies[AAPL]

\* _ensure_required_fields without the fill of '8k' (line 316 left out)
_ensure_required_fields_no_8k(data) ==
    LET d1 == IF "10k" \notin DOMAIN data
              THEN Update(data, "10k" :> _get_default_10k_data) ELSE data
        d2 == IF "proxy" \notin DOMAIN d1
              THEN Update(d1, "proxy" :> _get_default_proxy_data) ELSE d1
    IN  d2

\* _ensure_required_fields
_ensure_required_fields(data) ==
    LET d1 == IF "10k" \notin DOMAIN data
              THEN Update(data, "10k" :> _get_default_10k_data) ELSE data
        d2 == IF "proxy" \notin DOMAIN d1
              THEN Update(d1, "proxy" :> _get_default_proxy_data) ELSE d1
        d3 == IF "8k" \notin DOMAIN d2
              THEN Update(d2, "8k" :> Default8k) ELSE d2
    IN  d3

(* ------------------ extractor: the extraction service ----------------- *)
(* What self.client.extract returns or raises.  A response is               *)
(*   [kind |-> "mapping", extraction |-> dict]  .extraction is a dict       *)
(*   [kind |-> "no_attr"]     the result has no attribute 'extraction'      *)
(*   [kind |-> "not_dict"]    .extraction is None or another non-mapping    *)
(* and a call that raises is ServiceRaises.                                 *)

ServiceRaises == [kind |-> "raises"]

Mapping(e) == [kind |-> "mapping", extraction |-> e]

\* the result of a try block: an exception, or a value
Raised == [exc |-> TRUE]

Returned(v) == [exc |-> FALSE, val |-> v]

\* extract_10k_data, lines 187-205: extraction = extract_result.extraction,
\* then the record built from extraction.get(field, 0)
FinancialRecord(response) ==
    IF response.kind # "mapping" THEN Raised
    ELSE LET extraction == response.extraction IN
      Returned(
        [ revenue_current    |-> Get(extraction, "revenue_current", Num(0)),
          revenue_prior_1    |-> Get(extraction, "revenue_prior_1", Num(0)),
          revenue_prior_2    |-> Num(0),
          operating_income   |-> Get(extraction, "operating_income", Num(0)),
          net_income_current |-> Get(extraction, "net_income_current", Num(0)),
          net_income_prior_1 |-> Num(0),
          total_assets       |-> Get(extraction, "total_assets", Num(0)),
          total_liabilities  |-> Get(extraction, "total_liabilities", Num(0)),
          shareholders_equity |-> Get(extraction, "shareholders_equity", Num(0)),
          cash_equivalents   |-> Get(extraction, "cash_equivalents", Num(0)),
          total_debt         |-> Get(extraction, "total_debt", Num(0)),
          shares_outstanding |-> Get(extraction, "shares_outstanding", Num(0)) ])

\* a JSON string, and a JSON object (anything that has .get)
IsStr(v) == DOMAIN v = {"str"}

IsDict(v) == v # PyNone /\ ~IsStr(v) /\ ~IsNumber(v)

RatAdd(a, b) == Ratio(a.n * b.d + b.n * a.d, a.d * b.d)

RECURSIVE sum(_)
sum(xs) == IF xs = <<>> THEN Num(0) ELSE RatAdd(Head(xs), sum(Tail(xs)))

\* avg_tenure over the numeric tenures only, skipping what is not a number
AvgTenure_lenient(board_members) ==
    LET nums == SelectSeq(board_members,
                    LAMBDA m : IsDict(m) /\ IsNumber(Get(m, "tenure_years", Num(0))))
        tenures == [i \in 1..Len(nums) |-> Get(nums[i], "tenure_years", Num(0))]
    IN  IF nums = <<>> THEN Returned(Num(0))
        ELSE Returned(Ratio(sum(tenures).n, sum(tenures).d * Len(tenures)))

\* lines 265-269: avg_tenure; raises when a member has no .get (not a dict)
\* or a tenure is not a number (sum fails)
AvgTenure(board_members) ==
    IF board_members = <<>> THEN Returned(Num(0))
    ELSE IF \E i \in 1..Len(board_members) : ~IsDict(board_members[i]) THEN Raised
    ELSE LET tenures == [i \in 1..Len(board_members) |->
                            Get(board_members[i], "tenure_years", Num(0))]
         IN  IF \E i \in 1..Len(tenures) : ~IsNumber(tenures[i]) THEN Raised
             ELSE LET s == sum(tenures)
                  IN  Returned(Ratio(s.n, s.d * Len(tenures)))

\* extract_proxy_data, lines 260-282
GovernanceRecord(response) ==
    IF response.kind # "mapping" THEN Raised
    ELSE LET extraction    == response.extraction
             board_members == Get(extraction, "board_members", <<>>)
             avg_tenure    == AvgTenure(board_members)
         IN  IF avg_tenure.exc THEN Raised
             ELSE Returned(
               [ ceo_total_comp_current  |-> Get(extraction, "ceo_total_comp", Num(0)),
                 ceo_total_comp_prior_1  |-> Num(0),
                 ceo_base_salary         |-> Get(extraction, "ceo_base_salary", Num(0)),
                 ceo_bonus               |-> Num(0),
                 ceo_stock_awards        |-> Num(0),
                 say_on_pay_approval_pct |-> Get(extraction, "say_on_pay_approval_pct", Num(0)),
                 board_size              |-> Get(extraction, "board_size", Num(0)),
                 independent_directors   |-> Get(extraction, "independent_directors", Num(0)),
                 average_director_tenure |-> avg_tenure.val,
                 board_members           |-> board_members ])

\* what the model lets the service answer to the financial schema: a failure,
\* a result without extraction, an extraction that is no mapping, every field,
\* some fields, a field that is null
Responses10k ==
    { ServiceRaises, [kind |-> "no_attr"], [kind |-> "not_dict"],
      Mapping([ revenue_current |-> Num(50), revenue_prior_1 |-> Num(40),
                operating_income |-> Num(9), net_income_current |-> Num(7),
                total_assets |-> Num(90), total_liabilities |-> Num(60),
                shareholders_equity |-> Num(30), cash_equivalents |-> Num(5),
                total_debt |-> Num(20), shares_outstanding |-> Num(3) ]),
      Mapping([ revenue_current |-> Num(50), total_assets |-> Num(90) ]),
      Mapping([ revenue_current |-> Num(50), total_assets |-> PyNone ]) }

Director(name, tenure) == [name |-> name, independent |-> TRUE, tenure_years |-> tenure]

\* ... and to the governance schema: a full board, no board, a member without
\* tenure, a member that is not an object, a tenure that is not a number
ResponsesProxy ==
    { ServiceRaises, [kind |-> "no_attr"],
      Mapping([ ceo_total_comp |-> Num(800), ceo_base_salary |-> Num(100),
                say_on_pay_approval_pct |-> Ratio(181, 2), board_size |-> Num(2),
                independent_directors |-> Num(2),
                board_members |-> <<Director("A", Num(12)), Director("B", Num(3))>> ]),
      Mapping([ ceo_total_comp |-> Num(800), board_size |-> Num(2) ]),
      Mapping([ board_members |-> <<Director("A", Num(12)),
                                    [name |-> "B", independent |-> FALSE]>> ]),
      Mapping([ board_members |-> <<Director("A", Num(12)), Str("B")>> ]),
      Mapping([ board_members |-> <<Director("A", PyNone)>> ]) }

(* ------------------------ extractor: the inputs ----------------------- *)

Dot_html == <<".","h","t","m","l">>

Dot_md == <<".","m","d">>

\* the documents of the input lists: a cached filing, one whose extension is
\* upper case, a markdown file without a date, a record without a path
DocPool ==
    << [path |-> <<"t","e","s","t","_","A","A","P","L","_","1","0","k",".","h","t","m","l">>, date |-> <<"2","0","2","3","-","1","0","-","2","7">>],
       [path |-> <<"c","/","M","S","F","T","_","k",".","H","T","M","L">>, date |-> <<"2","0","2","4","-","0","2","-","0","1">>],
       [path |-> <<"t","e","s","t","_","a","a","p","l",".","m","d">>],
       [date |-> <<"2","0","2","3","-","1","0","-","2","7">>] >>

MaxDocs == 1

\* the document lists: the runs of at most MaxDocs consecutive documents
DocLists ==
    { SubSeq(DocPool, r[1], r[1] + r[2] - 1) :
        r \in { q \in (1..Len(DocPool)) \X (0..MaxDocs) : q[1] + q[2] - 1 <= Len(DocPool) } }

\* the filing categories the coordinator knows, in the order it launches them
Categories == <<"10-K", "DEF 14A", "8-K">>

CategorySet == {Categories[i] : i \in 1..Len(Categories)}

\* the categories a caller may pass: the known ones and one more
InputCategories == CategorySet \cup {"10-Q"}

MaxCats == 2

\* the insertion orders of a `filings` dictionary: distinct categories
CategoryOrders ==
    { o \in UNION { [1..n -> InputCategories] : n \in 0..MaxCats } :
        \A i, j \in 1..Len(o) : i # j => o[i] # o[j] }

\* a `filings` dictionary in insertion order, each category with a document list
FilingsInputs ==
    UNION { { [i \in 1..Len(o) |-> [cat |-> o[i], docs |-> d[i]]] :
                d \in [1..Len(o) -> DocLists] } : o \in CategoryOrders }

(* ----------------------- extractor: the state -------------------------- *)

VARIABLES
    client,          \* self.client is set (an API key was given and the SDK loaded)
    current_ticker,  \* self.current_ticker
    pc,              \* "idle", "gather" (process_all_documents awaits its tasks),
                     \* "direct" (an extract_*_data call is running), "done"
    call,            \* the method the caller invoked last
    filings,         \* its argument
    tasks,           \* the categories whose task was launched, in launch order
    taskState,       \* per category: "none", "launched", "converted", "returned", "raised"
    taskPath,        \* per category: file_path once the markup is normalized
    taskNote,        \* per category: the branch its extraction took
    taskResponse,    \* per category: what the service answered
    taskResult,      \* per category: the dictionary the task returned
    ret,             \* what the call returned (PyNone while it runs)
    atLaunch         \* the attributes as process_all_documents left them

extractorVars ==
    <<client, current_ticker, pc, call, filings, tasks, taskState, taskPath,
      taskNote, taskResponse, taskResult, ret, atLaunch>>

\* every extraction returning its record under the one key 'data'
KeyOf_one_key(c) == "data"

\* the key of the sub-dictionary a category's extraction returns
KeyOf(c) == CASE c = "10-K" -> "10k" [] c = "DEF 14A" -> "proxy" [] c = "8-K" -> "8k"

\* the default record of a category
DefaultOf(c) ==
    CASE c = "10-K" -> _get_default_10k_data
      [] c = "DEF 14A" -> _get_default_proxy_data
      [] c = "8-K" -> Default8k

NoTasks ==
    /\ tasks' = <<>>
    /\ taskState' = [c \in CategorySet |-> "none"]
    /\ taskPath' = [c \in CategorySet |-> <<>>]
    /\ taskNote' = [c \in CategorySet |-> "none"]
    /\ taskResponse' = [c \in CategorySet |-> PyNone]
    /\ taskResult' = [c \in CategorySet |-> EmptyDict]

\* __init__: the client exists only with an API key and an importable SDK
ExtractorInit ==
    /\ client \in BOOLEAN
    /\ current_ticker = PyNone
    /\ pc = "idle"
    /\ call = "none"
    /\ filings = EmptyDict
    /\ tasks = <<>>
    /\ taskState = [c \in CategorySet |-> "none"]
    /\ taskPath = [c \in CategorySet |-> <<>>]
    /\ taskNote = [c \in CategorySet |-> "none"]
    /\ taskResponse = [c \in CategorySet |-> PyNone]
    /\ taskResult = [c \in CategorySet |-> EmptyDict]
    /\ ret = PyNone
    /\ atLaunch = [client |-> client, current_ticker |-> PyNone]

\* re.search(r'([A-Z]+)_', s): group 1 of the leftmost match, or None
ticker_match(s) ==
    LET Match(i, j) == /\ \A k \in i..j : IsUpper(s[k])
                       /\ s[j + 1] = "_"
        starts == {i \in 1..Len(s) : \E j \in i..(Len(s) - 1) : Match(i, j)}
    IN  IF starts = {} THEN PyNone
        ELSE LET i == CHOOSE x \in starts : \A y \in starts : x <= y
                 j == CHOOSE x \in i..(Len(s) - 1) : Match(i, x)
             IN  Str(SubSeq(s, i, j))

\* the dictionary of an argument: category -> document list (after the loop
\* of lines 81-87 the code only looks categories up)
AsDict(f) ==
    [cat \in {f[i].cat : i \in 1..Len(f)} |->
        f[CHOOSE i \in 1..Len(f) : f[i].cat = cat].docs]

\* dict[cat], or the empty list when the key is absent
DocsOf(dict, cat) == IF cat \in DOMAIN dict THEN dict[cat] ELSE <<>>

\* lines 81-87: the ticker is taken from the first category that has documents
StoreTicker(f, cur) ==
    LET withDocs == {i \in 1..Len(f) : f[i].docs # <<>>}
    IN  IF withDocs = {} THEN cur
        ELSE LET first == CHOOSE i \in withDocs : \A j \in withDocs : i <= j
                 path  == Get(f[first].docs[1], "path", <<>>)
                 m     == ticker_match(basename(path))
             IN  IF m # PyNone THEN m ELSE cur

\* lines 95-104: one task per known category that has documents
LaunchedTasks(f) == SelectSeq(Categories, LAMBDA c : DocsOf(AsDict(f), c) # <<>>)

\* line 106 left out: an empty task list goes on to gather and merge
NoTasksToRun_skipped(f) == FALSE

\* line 106: `if not tasks`
NoTasksToRun(f) == LaunchedTasks(f) = <<>>

\* process_all_documents up to the gather (lines 78-111)
process_all_documents(f) ==
    /\ pc = "idle"
    /\ call' = "process_all_documents"
    /\ filings' = AsDict(f)
    /\ current_ticker' = StoreTicker(f, current_ticker)
    /\ UNCHANGED client
    /\ atLaunch' = [client |-> client, current_ticker |-> current_ticker']
    /\ IF ~client \/ NoTasksToRun(f)
       THEN /\ ret' = _get_complete_demo_data(current_ticker')
            /\ pc' = "done"
            /\ NoTasks
       ELSE /\ ret' = PyNone
            /\ pc' = "gather"
            /\ tasks' = LaunchedTasks(f)
            /\ taskState' = [c \in CategorySet |->
                                IF DocsOf(AsDict(f), c) # <<>> THEN "launched" ELSE "none"]
            /\ taskPath' = [c \in CategorySet |-> <<>>]
            /\ taskNote' = [c \in CategorySet |-> "none"]
            /\ taskResponse' = [c \in CategorySet |-> PyNone]
            /\ taskResult' = [c \in CategorySet |-> EmptyDict]

(* ------------------- extractor: the category tasks --------------------- *)

\* the task of category c ends, returning the dictionary {KeyOf(c): record}
TaskReturns(c, record, note) ==
    /\ taskState' = [taskState EXCEPT ![c] = "returned"]
    /\ taskResult' = [taskResult EXCEPT ![c] = KeyOf(c) :> record]
    /\ taskNote' = [taskNote EXCEPT ![c] = note]

\* a converter that writes every document's text to one scratch file
md_path_of_scratch(html_path) == <<"o","u","t",".","m","d">>

\* _html_to_markdown, line 54: md_path = html_path.replace('.html', '.md')
md_path_of(html_path) == replace(html_path, Dot_html, Dot_md)

(* What one conversion meets:                                               *)
(*   deps      bs4 and html2text can be imported                            *)
(*   read      the source can be opened and decoded as utf-8                *)
(*   convert   html2text handles the markup                                 *)
(*   write     the output can be opened and written                         *)
\* a step the conversion does not reach is left as failing
ConvertEnvs ==
    { e \in [deps : BOOLEAN, read : BOOLEAN, convert : BOOLEAN, write : BOOLEAN] :
        /\ ~e.deps => ~e.read
        /\ ~e.read => ~e.convert
        /\ ~e.convert => ~e.write }

\* h.handle(html_content): the normalized text of a document
Markdown(content) == [kind |-> "markdown", of |-> content]

\* the conversion with only its 'except ImportError' clause
_html_to_markdown_import_only(files, html_path, env) ==
    IF ~env.deps THEN [exc |-> FALSE, val |-> PyNone, files |-> files]
    ELSE IF html_path \notin DOMAIN files \/ ~env.read \/ ~env.convert \/ ~env.write
    THEN [exc |-> TRUE, files |-> files]
    ELSE [ exc |-> FALSE, val |-> Str(md_path_of(html_path)),
           files |-> (md_path_of(html_path) :> Markdown(files[html_path])) @@ files ]

\* _html_to_markdown, lines 35-65: the path written, or None; every
\* exception of the try block is caught (lines 60-65)
_html_to_markdown(files, html_path, env) ==
    IF ~env.deps THEN [exc |-> FALSE, val |-> PyNone, files |-> files]
    ELSE IF html_path \notin DOMAIN files \/ ~env.read \/ ~env.convert \/ ~env.write
    THEN [exc |-> FALSE, val |-> PyNone, files |-> files]
    ELSE [ exc |-> FALSE, val |-> Str(md_path_of(html_path)),
           files |-> (md_path_of(html_path) :> Markdown(files[html_path])) @@ files ]

\* the document at a path before its category's task runs
SourceFiles(path) == path :> [kind |-> "source", path |-> path]

\* extract_10k_data and extract_proxy_data up to the service call (lines
\* 138-159 and 211-232): the early default, filing['path'], and the markup
\* normalization, which returns a path or None
ExtractStart(c) ==
    /\ pc \in {"gather", "direct"}
    /\ c \in {"10-K", "DEF 14A"}
    /\ taskState[c] = "launched"
    /\ LET docs == DocsOf(filings, c) IN
         IF docs = <<>> \/ ~client
         THEN TaskReturns(c, DefaultOf(c), "no_input") /\ UNCHANGED taskPath
         ELSE IF "path" \notin DOMAIN docs[1]
         THEN TaskReturns(c, DefaultOf(c), "no_path") /\ UNCHANGED taskPath
         ELSE IF endswith(lower(docs[1].path), Dot_html)
         THEN \E env \in ConvertEnvs :
              \E r \in {_html_to_markdown(SourceFiles(docs[1].path), docs[1].path, env)} :
                IF r.exc
                THEN TaskReturns(c, DefaultOf(c), "conversion_raised") /\ UNCHANGED taskPath
                ELSE IF r.val = PyNone \/ r.val = Str(<<>>)
                THEN TaskReturns(c, DefaultOf(c), "conversion_failed") /\ UNCHANGED taskPath
                ELSE /\ taskState' = [taskState EXCEPT ![c] = "converted"]
                     /\ taskPath' = [taskPath EXCEPT ![c] = r.val.str]
                     /\ UNCHANGED <<taskResult, taskNote>>
         ELSE /\ taskState' = [taskState EXCEPT ![c] = "converted"]
              /\ taskPath' = [taskPath EXCEPT ![c] = docs[1].path]
              /\ UNCHANGED <<taskResult, taskNote>>
    /\ UNCHANGED <<client, current_ticker, atLaunch, pc, call, filings, tasks, taskResponse, ret>>

\* the record a category builds from the service's response
RecordOf(c, response) ==
    IF c = "10-K" THEN FinancialRecord(response) ELSE GovernanceRecord(response)

ResponsesOf(c) == IF c = "10-K" THEN Responses10k ELSE ResponsesProxy

\* the service call and the mapping of its response (lines 161-209 and
\* 234-286); every exception ends in the default record
ExtractFinish(c) ==
    /\ c \in {"10-K", "DEF 14A"}
    /\ taskState[c] = "converted"
    /\ \E response \in ResponsesOf(c) :
         /\ taskResponse' = [taskResponse EXCEPT ![c] = response]
         /\ IF response = ServiceRaises
            THEN TaskReturns(c, DefaultOf(c), "service_raised")
            ELSE IF RecordOf(c, response).exc
            THEN TaskReturns(c, DefaultOf(c), "malformed_response")
            ELSE TaskReturns(c, RecordOf(c, response).val, "extracted")
    /\ UNCHANGED <<client, current_ticker, atLaunch, pc, call, filings, tasks, taskPath, ret>>

MaterialEventOn == <<"M","a","t","e","r","i","a","l"," ","e","v","e","n","t"," ","o","n"," ">>

UnknownDate == <<"u","n","k","n","o","w","n"," ","d","a","t","e">>

RecentCount == 3

\* a label per filing, however many there are
RecentEvents_all(docs) ==
    [i \in 1..Len(docs) |-> MaterialEventOn \o Get(docs[i], "date", UnknownDate)]

\* extract_8k_data, lines 294-301: a label per filing of filings[:3]
RecentEvents(docs) ==
    [i \in 1..(IF Len(docs) < RecentCount THEN Len(docs) ELSE RecentCount) |->
        MaterialEventOn \o Get(docs[i], "date", UnknownDate)]

\* lines 296-305: the labels, or [] when one of filings[:3] has no .get
Events8k(docs) ==
    IF \E i \in 1..Len(docs) : i <= RecentCount /\ ~IsDict(docs[i]) THEN <<>>
    ELSE RecentEvents(docs)

extract_8k_data ==
    /\ pc \in {"gather", "direct"}
    /\ taskState["8-K"] = "launched"
    /\ TaskReturns("8-K", [recent_events |-> Events8k(DocsOf(filings, "8-K"))],
                   "extracted")
    /\ UNCHANGED <<client, current_ticker, atLaunch, pc, call, filings, tasks, taskPath,
                   taskResponse, ret>>

\* _extract_*_async: the task itself fails (asyncio.to_thread cannot run the
\* extraction, or it raises outside its try block); gather records the exception
TaskRaises(c) ==
    /\ pc = "gather"
    /\ taskState[c] = "launched"
    /\ taskState' = [taskState EXCEPT ![c] = "raised"]
    /\ taskNote' = [taskNote EXCEPT ![c] = "task_raised"]
    /\ UNCHANGED <<client, current_ticker, atLaunch, pc, call, filings, tasks, taskPath,
                   taskResponse, taskResult, ret>>

(* --------------------- extractor: gather and merge --------------------- *)

Terminated(c) == taskState[c] \in {"returned", "raised"}

\* gather without return_exceptions: done as soon as one task has raised
GatherDone_first_exception ==
    \/ \A i \in 1..Len(tasks) : Terminated(tasks[i])
    \/ \E i \in 1..Len(tasks) : taskState[tasks[i]] = "raised"

\* asyncio.gather(*tasks, return_exceptions=True) is done when every task is
GatherDone == \A i \in 1..Len(tasks) : Terminated(tasks[i])

\* the merge loop stopping at the first result that is an exception
RECURSIVE Combine_until_exception(_, _)
Combine_until_exception(combined, i) ==
    IF i > Len(tasks) THEN combined
    ELSE IF taskState[tasks[i]] = "returned"
    THEN Combine_until_exception(Update(combined, taskResult[tasks[i]]), i + 1)
    ELSE combined

\* lines 114-119: combined.update(result) for every result that is a dict
RECURSIVE Combine(_, _)
Combine(combined, i) ==
    IF i > Len(tasks) THEN combined
    ELSE IF taskState[tasks[i]] = "returned"
    THEN Combine(Update(combined, taskResult[tasks[i]]), i + 1)
    ELSE Combine(combined, i + 1)

\* lines 111-124
Merge ==
    /\ pc = "gather"
    /\ GatherDone
    /\ ret' = _ensure_required_fields(Combine(EmptyDict, 1))
    /\ pc' = "done"
    /\ UNCHANGED <<client, current_ticker, atLaunch, call, filings, tasks, taskState, taskPath,
                   taskNote, taskResponse, taskResult>>

\* a caller invokes extract_10k_data, extract_proxy_data or extract_8k_data itself
ExtractCall(c, docs) ==
    /\ pc = "idle"
    /\ call' = c
    /\ filings' = c :> docs
    /\ pc' = "direct"
    /\ ret' = PyNone
    /\ tasks' = <<c>>
    /\ taskState' = [x \in CategorySet |-> IF x = c THEN "launched" ELSE "none"]
    /\ taskPath' = [x \in CategorySet |-> <<>>]
    /\ taskNote' = [x \in CategorySet |-> "none"]
    /\ taskResponse' = [x \in CategorySet |-> PyNone]
    /\ taskResult' = [x \in CategorySet |-> EmptyDict]
    /\ UNCHANGED <<client, current_ticker, atLaunch>>

ExtractReturn ==
    /\ pc = "direct"
    /\ taskState[tasks[1]] = "returned"
    /\ ret' = taskResult[tasks[1]]
    /\ pc' = "done"
    /\ UNCHANGED <<client, current_ticker, atLaunch, call, filings, tasks, taskState, taskPath,
                   taskNote, taskResponse, taskResult>>

\* the caller has its result; the extractor keeps self.client and
\* self.current_ticker for the next call
CallerResumes ==
    /\ pc = "done"
    /\ pc' = "idle"
    /\ call' = "none"
    /\ filings' = EmptyDict
    /\ ret' = PyNone
    /\ NoTasks
    /\ UNCHANGED <<client, current_ticker, atLaunch>>

(* ======================= fetcher: SECFetcher =========================== *)

\* str(n) for n >= 0
RECURSIVE IntToText(_)
IntToText(n) == IF n < 10 THEN <<Digits[n + 1]>> ELSE IntToText(n \div 10) \o <<Digits[(n % 10) + 1]>>

\* str.zfill(width)
RECURSIVE zfill(_, _)
zfill(s, width) == IF Len(s) >= width THEN s ELSE zfill(<<"0">> \o s, width)

DigitValue(c) == (CHOOSE i \in 1..Len(Digits) : Digits[i] = c) - 1

\* int(s) for a text of digits
RECURSIVE TextToInt(_)
TextToInt(s) ==
    IF s = <<>> THEN 0 ELSE TextToInt(SubSeq(s, 1, Len(s) - 1)) * 10 + DigitValue(s[Len(s)])

CikWidth == 10

SentinelCik == <<"0","0","0","0","0","0","0","0","0","0">>

Corp == <<" ","C","o","r","p",".">>

\* what the model lets callers construct a fetcher with
TickerInputs == { <<"a","a","p","l">>, <<"M","s","f","t">> }

\* the bodies the bulk index answers with: the entries of data.values(), in order
TickerIndexes ==
    { << [ticker |-> <<"A","A","P","L">>, cik_str |-> 320193, title |-> <<"A","p","p","l","e">>],
         [ticker |-> <<"m","s","f","t">>, cik_str |-> 789019, title |-> <<"M","i","c","r","o","s","o","f","t">>] >>,
      << [ticker |-> <<"M","S","F","T">>, cik_str |-> 789019],
         [ticker |-> <<"A","A","P","L">>, cik_str |-> 320193, title |-> <<"A","p","p","l","e">>] >>,
      << [title |-> <<"A","p","p","l","e">>, cik_str |-> 320193],
         [ticker |-> <<"A","A","P","L">>, cik_str |-> 320193, title |-> <<"A","p","p","l","e">>] >>,
      << [ticker |-> <<"A","A","P","L">>, cik_str |-> 320193, title |-> <<"A","p","p","l","e">>] >> }

\* the outcomes of requests.get(tickers_url), raise_for_status() and json()
LookupOutcomes ==
    { [kind |-> "network_error"], [kind |-> "bad_status"], [kind |-> "bad_json"] }
        \cup { [kind |-> "index", entries |-> e] : e \in TickerIndexes }

\* lines 48-53: the fallback of _get_cik
Fallback(tk) == [cik |-> Str(SentinelCik), company_name |-> Str(tk \o Corp)]

\* the scan ending without the ValueError of line 46: nothing is assigned
RECURSIVE ScanEntries_no_raise(_, _, _)
ScanEntries_no_raise(tk, entries, i) ==
    IF i > Len(entries) THEN Returned([cik |-> PyNone, company_name |-> PyNone])
    ELSE IF "ticker" \notin DOMAIN entries[i] THEN Raised
    ELSE IF upper(entries[i].ticker) = tk
    THEN IF "title" \notin DOMAIN entries[i] THEN Raised
         ELSE Returned([cik |-> Str(zfill(IntToText(entries[i].cik_str), CikWidth)),
                        company_name |-> Str(entries[i].title)])
    ELSE ScanEntries_no_raise(tk, entries, i + 1)

\* lines 39-46: the scan of the entries; an entry without 'ticker' or 'title'
\* raises KeyError; no entry matching raises ValueError
RECURSIVE ScanEntries(_, _, _)
ScanEntries(tk, entries, i) ==
    IF i > Len(entries) THEN Raised
    ELSE IF "ticker" \notin DOMAIN entries[i] THEN Raised
    ELSE IF upper(entries[i].ticker) = tk
    THEN IF "title" \notin DOMAIN entries[i] THEN Raised
         ELSE Returned([cik |-> Str(zfill(IntToText(entries[i].cik_str), CikWidth)),
                        company_name |-> Str(entries[i].title)])
    ELSE ScanEntries(tk, entries, i + 1)

\* _get_cik: the identity it leaves in self.cik and self.company_name
Resolve(tk, outcome) ==
    IF outcome.kind # "index" THEN Fallback(tk)
    ELSE LET found == ScanEntries(tk, outcome.entries, 1)
         IN  IF found.exc THEN Fallback(tk) ELSE found.val


(* ---------------------- fetcher: the filing feed ----------------------- *)
(* A feed is the sequence of its <entry> blocks.  An entry is a record of   *)
(* the tag contents the parser looks for; a tag the entry lacks is a field  *)
(* the record lacks:                                                        *)
(*   filing_date     the text of <filing-date>                              *)
(*   accession       the text of <accession-number>                         *)
(*   accession_alt   the number following accession_number= or the like     *)
(*   href            the text of <filing-href>                              *)

\* [\d-]+ : a non-empty text of digits and dashes
DigitsAndDashes(s) == s # <<>> /\ \A i \in 1..Len(s) : IsDigit(s[i]) \/ s[i] = "-"

IsLeap(y) == (y % 4 = 0 /\ y % 100 # 0) \/ y % 400 = 0

DaysInMonth(y, m) ==
    IF m = 2 THEN (IF IsLeap(y) THEN 29 ELSE 28)
    ELSE IF m \in {4, 6, 9, 11} THEN 30 ELSE 31

RECURSIVE DaysBeforeMonth(_, _)
DaysBeforeMonth(y, m) == IF m = 1 THEN 0 ELSE DaysBeforeMonth(y, m - 1) + DaysInMonth(y, m - 1)

\* date.toordinal(): the day number of a calendar date
Ordinal(y, m, d) ==
    (y - 1) * 365 + ((y - 1) \div 4) - ((y - 1) \div 100) + ((y - 1) \div 400)
        + DaysBeforeMonth(y, m) + d

\* the digit at position i, or -1 when there is none
DigitAt(s, i) == IF i <= Len(s) /\ IsDigit(s[i]) THEN DigitValue(s[i]) ELSE -1

\* %m and %d of strptime: the alternatives in the order the pattern tries them;
\* each result is <<value, next position>>
MonthAlternatives(s, i) ==
    LET a == DigitAt(s, i)
        b == DigitAt(s, i + 1)
    IN  (IF a = 1 /\ b \in 0..2 THEN << <<10 + b, i + 2>> >> ELSE <<>>)
        \o (IF a = 0 /\ b \in 1..9 THEN << <<b, i + 2>> >> ELSE <<>>)
        \o (IF a \in 1..9 THEN << <<a, i + 1>> >> ELSE <<>>)

DayAlternatives(s, i) ==
    LET a == DigitAt(s, i)
        b == DigitAt(s, i + 1)
    IN  (IF a = 3 /\ b \in 0..1 THEN << <<30 + b, i + 2>> >> ELSE <<>>)
        \o (IF a \in 1..2 /\ b \in 0..9 THEN << <<a * 10 + b, i + 2>> >> ELSE <<>>)
        \o (IF a = 0 /\ b \in 1..9 THEN << <<b, i + 2>> >> ELSE <<>>)
        \o (IF a \in 1..9 THEN << <<a, i + 1>> >> ELSE <<>>)

\* datetime.strptime(s, '%Y-%m-%d'): the date, or ValueError.  The pattern is
\* \d\d\d\d-(month)-(day) matched at the start of s; text left over after the
\* match, a year 0 and a day the month does not have are errors.
strptime(s) ==
    IF ~(\A i \in 1..4 : DigitAt(s, i) >= 0) \/ Len(s) < 5 \/ s[5] # "-" THEN Raised
    ELSE LET year == TextToInt(SubSeq(s, 1, 4))
             months == SelectSeq(MonthAlternatives(s, 6),
                          LAMBDA m : m[2] <= Len(s) /\ s[m[2]] = "-"
                                       /\ DayAlternatives(s, m[2] + 1) # <<>>)
         IN  IF months = <<>> THEN Raised
             ELSE LET month == months[1][1]
                      day   == DayAlternatives(s, months[1][2] + 1)[1]
                  IN  IF day[2] # Len(s) + 1 \/ year < 1 \/ day[1] > DaysInMonth(year, month)
                      THEN Raised
                      ELSE Returned([y |-> year, m |-> month, d |-> day[1]])

\* the code point of a digit or a dash
Ord(c) == IF c = "-" THEN 45 ELSE 48 + DigitValue(c)

\* a < b for Python strings of digits and dashes
RECURSIVE TextLess(_, _)
TextLess(a, b) ==
    IF b = <<>> THEN FALSE
    ELSE IF a = <<>> THEN TRUE
    ELSE IF Ord(Head(a)) # Ord(Head(b)) THEN Ord(Head(a)) < Ord(Head(b))
    ELSE TextLess(Tail(a), Tail(b))

\* list.sort(key=lambda x: x['date'], reverse=True): stable, greatest first
RECURSIVE SortByDateDesc(_)
SortByDateDesc(fs) ==
    IF fs = <<>> THEN <<>>
    ELSE LET last == fs[Len(fs)]
             rest == SortByDateDesc(SubSeq(fs, 1, Len(fs) - 1))
             \* `last` goes after every element that is not smaller than it
             keep == {i \in 1..Len(rest) : ~TextLess(rest[i].date, last.date)}
             k    == IF keep = {} THEN 0 ELSE CHOOSE i \in keep : \A j \in keep : j <= i
         IN  SubSeq(rest, 1, k) \o <<last>> \o SubSeq(rest, k + 1, Len(rest))

\* the clock of datetime.now(): the calendar day, and whether the time of day
\* is exactly midnight
Clocks == { [day |-> Ordinal(2024, 6, 15), midnight |-> FALSE],
            [day |-> Ordinal(2024, 6, 15), midnight |-> TRUE] }

DaysPerYear == 365

\* the comparison of line 145 made on the calendar days alone
BeforeCutoff_by_day(date, now, years) ==
    Ordinal(date.y, date.m, date.d) < now.day - DaysPerYear * years

\* line 145: filing_date < cutoff_date, both datetimes; filing_date is a midnight
BeforeCutoff(date, now, years) ==
    LET cutoff_day == now.day - DaysPerYear * years
        day == Ordinal(date.y, date.m, date.d)
    IN  day < cutoff_day \/ (day = cutoff_day /\ ~now.midnight)

\* lines 134-172, one entry: the reference appended, or nothing (continue)
ParseEntry(entry, now, years) ==
    IF "filing_date" \notin DOMAIN entry \/ ~DigitsAndDashes(entry.filing_date) THEN <<>>
    ELSE IF strptime(entry.filing_date).exc THEN <<>>
    ELSE IF BeforeCutoff(strptime(entry.filing_date).val, now, years) THEN <<>>
    ELSE LET acc == IF "accession" \in DOMAIN entry /\ DigitsAndDashes(entry.accession)
                    THEN Str(entry.accession)
                    ELSE IF "accession_alt" \in DOMAIN entry
                              /\ DigitsAndDashes(entry.accession_alt)
                    THEN Str(entry.accession_alt)
                    ELSE PyNone
         IN  IF acc = PyNone THEN <<>>
             ELSE << [ date |-> entry.filing_date,
                       accession |-> acc.str,
                       url |-> IF "href" \in DOMAIN entry THEN Str(entry.href) ELSE PyNone ] >>

\* an entry the loop cannot turn into a reference: no filing date (lines
\* 137-139), a date strptime rejects (line 142), no accession (lines 149-156)
Malformed(entry) ==
    \/ "filing_date" \notin DOMAIN entry
    \/ ~DigitsAndDashes(entry.filing_date)
    \/ strptime(entry.filing_date).exc
    \/ /\ ~("accession" \in DOMAIN entry /\ DigitsAndDashes(entry.accession))
       /\ ~("accession_alt" \in DOMAIN entry /\ DigitsAndDashes(entry.accession_alt))

\* the loop with its try around all entries: the first malformed entry ends it
RECURSIVE ParseEntries_abort(_, _, _, _)
ParseEntries_abort(entries, i, now, years) ==
    IF i > Len(entries) \/ Malformed(entries[i]) THEN <<>>
    ELSE ParseEntry(entries[i], now, years) \o ParseEntries_abort(entries, i + 1, now, years)

RECURSIVE ParseEntries(_, _, _, _)
ParseEntries(entries, i, now, years) ==
    IF i > Len(entries) THEN <<>>
    ELSE ParseEntry(entries[i], now, years) \o ParseEntries(entries, i + 1, now, years)

\* _parse_atom_feed
_parse_atom_feed(entries, now, years) == SortByDateDesc(ParseEntries(entries, 1, now, years))


(* -------------------- fetcher: retrieving a filing --------------------- *)

BASE_URL == <<"h","t","t","p","s",":","/","/","w","w","w",".","s","e","c",".","g","o","v">>

\* text.split(sep)[-1]: what follows the last occurrence of sep
SplitLast(s, sep) ==
    LET at == {i \in 1..Len(s) : OccursAt(s, i, sep)}
    IN  IF at = {} THEN s
        ELSE SubSeq(s, (CHOOSE i \in at : \A j \in at : j <= i) + Len(sep), Len(s))

\* lines 186-190: the index-page URL of a reference
IndexUrl(filing, cik_text) ==
    IF filing.url # PyNone /\ filing.url # Str(<<>>) THEN filing.url.str
    ELSE LET cik_no_pad == IF cik_text # SentinelCik THEN IntToText(TextToInt(cik_text))
                           ELSE <<"0">>
             accession_no_dash == replace(filing.accession, <<"-">>, <<>>)
         IN  BASE_URL \o <<"/","A","r","c","h","i","v","e","s","/","e","d","g","a","r","/","d","a","t","a","/">> \o cik_no_pad \o <<"/">> \o accession_no_dash
                 \o <<"/">> \o filing.accession \o <<"-","i","n","d","e","x",".","h","t","m","l">>

\* the cache path built from the filing type as it is given
CachePath_raw_type(tk, filing_type, date) ==
    <<"d","a","t","a","/","c","a","c","h","e","/">> \o tk \o <<"/">>
        \o tk \o <<"_">> \o filing_type \o <<"_">> \o date \o Dot_html

\* lines 193-198: the cache path of a reference
CachePath(tk, filing_type, date) ==
    LET cache_dir == <<"d","a","t","a","/","c","a","c","h","e","/">> \o tk
        safe_type == replace(replace(filing_type, <<" ">>, <<"_">>), <<"/">>, <<"-">>)
        filename  == tk \o <<"_">> \o safe_type \o <<"_">> \o date \o Dot_html
    IN  cache_dir \o <<"/">> \o filename

(* An index page is [table |-> whether it has the 'Document Format Files'   *)
(* table, rows |-> its rows]; a row is [cells |-> number of <td>, type |->  *)
(* the text of the fourth cell, href |-> the link of the third cell (absent *)
(* when the cell has no link)].                                             *)

ViewerPrefix == <<"/","i","x","?","d","o","c","=">>

\* the scan taking every link as it stands, viewer links included
RECURSIVE FindLink_as_given(_, _, _)
FindLink_as_given(rows, i, filing_type) ==
    IF i > Len(rows) THEN PyNone
    ELSE IF rows[i].cells > 3 /\ upper(rows[i].type) = upper(filing_type)
              /\ "href" \in DOMAIN rows[i]
    THEN Str(rows[i].href)
    ELSE FindLink_as_given(rows, i + 1, filing_type)

\* lines 209-234: the document link of an index page, or None
RECURSIVE FindLink(_, _, _)
FindLink(rows, i, filing_type) ==
    IF i > Len(rows) THEN PyNone
    ELSE IF rows[i].cells > 3 /\ upper(rows[i].type) = upper(filing_type)
              /\ "href" \in DOMAIN rows[i]
    THEN IF startswith(rows[i].href, ViewerPrefix)
         THEN Str(SplitLast(rows[i].href, <<"?","d","o","c","=">>))
         ELSE Str(rows[i].href)
    ELSE FindLink(rows, i + 1, filing_type)

doc_link_of(page, filing_type) ==
    IF page.table THEN FindLink(page.rows, 1, filing_type) ELSE PyNone

PlaceholderSize == 1000

\* the placeholder documents of lines 240 and 277
DemoFiling(filing_type, tk) == [kind |-> "demo_filing", type |-> filing_type, ticker |-> tk]

DemoContent(filing_type, tk, date) ==
    [kind |-> "demo_content", type |-> filing_type, ticker |-> tk, date |-> date]

Document(body) == [kind |-> "document", body |-> body]

\* open(path, 'w') and write: the file system after it
WriteFile(files, path, content) ==
    [p \in (DOMAIN files) \cup {path} |-> IF p = path THEN content ELSE files[p]]

(* What one call meets:                                                     *)
(*   makedirs   os.makedirs succeeds                                        *)
(*   index      the index page, or "fails" (request error or bad status)    *)
(*   document   the body downloaded, or "fails"                             *)
(*   write      the write inside the try block succeeds                     *)
(*   rewrite    the write of the except block succeeds                      *)
Fails == [kind |-> "fails"]

Page(table, rows) == [kind |-> "page", table |-> table, rows |-> rows]

Body(bytes) == [kind |-> "body", bytes |-> bytes]

\* the except block returning its record without writing the placeholder
DownloadFailed_no_write(files, filing, filing_type, tk, index_url, filepath, env) ==
    [ exc |-> FALSE, course |-> "failed", files |-> files,
      val |-> [ date |-> filing.date, url |-> index_url, path |-> filepath,
                size |-> PlaceholderSize, accession |-> filing.accession ] ]

\* the except block, lines 273-284; its write is outside any try
DownloadFailed(files, filing, filing_type, tk, index_url, filepath, env) ==
    IF ~env.rewrite THEN [exc |-> TRUE, files |-> files]
    ELSE [ exc |-> FALSE, course |-> "failed",
           files |-> WriteFile(files, filepath, DemoContent(filing_type, tk, filing.date)),
           val |-> [ date |-> filing.date, url |-> index_url, path |-> filepath,
                     size |-> PlaceholderSize, accession |-> filing.accession ] ]

\* _download_filing: the record returned or the exception raised, the files,
\* and the course the call took: "downloaded", "no_link" (lines 236-247) or
\* "failed" (the except block)
_download_filing(files, filing, filing_type, tk, cik_text, env) ==
    LET index_url == IndexUrl(filing, cik_text)
        filepath  == CachePath(tk, filing_type, filing.date)
        failed    == DownloadFailed(files, filing, filing_type, tk, index_url, filepath, env)
    IN  IF ~env.makedirs THEN [exc |-> TRUE, files |-> files]
        ELSE IF env.index = Fails THEN failed
        ELSE LET doc_link == doc_link_of(env.index, filing_type) IN
          IF doc_link = PyNone \/ doc_link = Str(<<>>)
          THEN IF ~env.write THEN failed
               ELSE [ exc |-> FALSE, course |-> "no_link",
                      files |-> WriteFile(files, filepath, DemoFiling(filing_type, tk)),
                      val |-> [ date |-> filing.date, url |-> index_url, path |-> filepath,
                                size |-> PlaceholderSize, accession |-> filing.accession ] ]
          ELSE IF env.document = Fails \/ ~env.write THEN failed
          ELSE [ exc |-> FALSE, course |-> "downloaded",
                 files |-> WriteFile(files, filepath, Document(env.document.bytes)),
                 val |-> [ date |-> filing.date, url |-> BASE_URL \o doc_link.str,
                           path |-> filepath, size |-> Len(env.document.bytes),
                           accession |-> filing.accession ] ]


(* ------------------------ fetcher: the inputs -------------------------- *)

Acc1 == <<"1","-","2","4","-","1">>

Acc2 == <<"1","-","2","4","-","2">>

\* the feeds the index answers with: in order, out of order, with malformed
\* entries and two filings of one day, with nothing recent, and with a month
\* written without its leading zero
Feeds ==
    { << [filing_date |-> <<"2","0","2","4","-","0","2","-","0","1">>, accession |-> Acc1, href |-> <<"/","i","1">>] >>,
      << [filing_date |-> <<"2","0","2","3","-","0","6","-","1","6">>, accession |-> Acc2],
         [filing_date |-> <<"2","0","2","4","-","0","2","-","0","1">>, accession |-> Acc1, href |-> <<"/","i","1">>] >>,
      << [accession |-> Acc1],
         [filing_date |-> <<"2","0","2","4","-","0","2","-","0","1">>, accession |-> Acc1, href |-> <<"/","i","1">>],
         [filing_date |-> <<"2","0","2","4","-","1","3","-","0","1">>, accession |-> Acc1],
         [filing_date |-> <<"2","0","2","4","-","0","2","-","0","1">>, accession_alt |-> Acc2] >>,
      << [filing_date |-> <<"2","0","1","9","-","0","1","-","0","1">>, accession |-> Acc1] >>,
      << [filing_date |-> <<"2","0","2","4","-","0","2","-","0","1">>, accession |-> Acc1, href |-> <<"/","i","1">>],
         [filing_date |-> <<"2","0","2","4","-","1","-","1","5">>, accession |-> Acc2] >> }

T10K == <<"1","0","-","K">>

TDEF14A == <<"D","E","F"," ","1","4","A">>

FilingTypes == {T10K, TDEF14A}

\* the index pages: direct and viewer links, a header row and a row without
\* a link before the document's row, no document table
IndexPages ==
    { Page(TRUE, << [cells |-> 5, type |-> T10K, href |-> <<"/","a",".","h","t","m">>],
                    [cells |-> 5, type |-> TDEF14A, href |-> <<"/","i","x","?","d","o","c","=","/","p",".","h","t","m">>] >>),
      Page(TRUE, << [cells |-> 0],
                    [cells |-> 5, type |-> <<"1","0","-","k">>],
                    [cells |-> 5, type |-> T10K, href |-> <<"/","i","x","?","d","o","c","=","/","a",".","h","t","m">>] >>),
      Page(FALSE, << >>) }

DocumentBodies == { << >>, <<"d","o","c">> }

\* what a call can meet; a step the call does not reach is left as failing, so
\* that each course of the call is drawn once
RetrieveEnvs ==
    { e \in [ makedirs : BOOLEAN, index : {Fails} \cup IndexPages,
              document : {Fails} \cup {Body(b) : b \in DocumentBodies},
              write : BOOLEAN, rewrite : BOOLEAN ] :
        /\ ~e.makedirs => e.index = Fails /\ ~e.rewrite
        /\ e.index = Fails => e.document = Fails /\ ~e.write
        /\ e.document # Fails /\ e.write => ~e.rewrite }

MaxTypes == 2

\* the filing_types lists of a fetch_filings call: no type twice
TypeLists ==
    { l \in UNION { [1..n -> FilingTypes] : n \in 1..MaxTypes } :
        \A i, j \in 1..Len(l) : i # j => l[i] # l[j] }

\* years: the default 3, and the 1 of get_latest_filing
YearsInputs == {1, 3}

MaxRetrievals == 2

(* ------------------------- fetcher: the state -------------------------- *)

VARIABLES
    headers,       \* self.headers
    sent,          \* the requests the last step issued
    ticker,        \* self.ticker
    cik,           \* self.cik
    company_name,  \* self.company_name
    resolved,      \* _get_cik has run on this instance
    files,         \* the cache: path -> content
    fpc,           \* "idle", "types" (between filing types), "downloads", "done"
    ftypes,        \* fetch_filings: filing_types
    fyears,        \*                years
    ti,            \* the position in filing_types
    refs,          \* _fetch_filing_type: what is left of filings[:3]
    downloaded,    \*                     downloaded
    results,       \* fetch_filings: results
    lastRetrieve,  \* the last _download_filing call: its arguments, course and outcome
    lastParse,     \* the _parse_atom_feed call that has just returned: its clock,
                   \* its years and its result (lines 102-104)
    retrieved,     \* per filing type: the records _download_filing returned in this run
    retrievals     \* the _download_filing calls on this instance so far

fetcherVars ==
    <<ticker, cik, company_name, resolved, files, fpc, ftypes, fyears, ti, refs,
      downloaded, results, lastRetrieve, lastParse, retrieved, retrievals,
      headers, sent>>

\* __init__, lines 17-21: the headers every request is given
InitialHeaders ==
    ("User-Agent" :> <<"A","c","t","i","v","i","s","t","I","n","t","e","l"," ","d","e","m","o","@","a","c","t","i","v","i","s","t",".","c","o","m">>)
    @@ ("Accept-Encoding" :> <<"g","z","i","p",","," ","d","e","f","l","a","t","e">>)
    @@ ("Host" :> <<"w","w","w",".","s","e","c",".","g","o","v">>)

\* a request sent with no headers of the caller's
requests_get_anonymous(to, hdrs) == [to |-> to, headers |-> EmptyDict]

\* requests.get(url, headers=self.headers, ...): the request that goes out;
\* to is "tickers" (line 33), "feed" (lines 93-98), "index" (line 204) or
\* "document" (line 251)
requests_get(to, hdrs) == [to |-> to, headers |-> hdrs]

\* the requests of one _download_filing call: the index page once the
\* directory exists, the document once the page gave a link
DownloadRequests(filing_type, env, hdrs) ==
    IF ~env.makedirs THEN {}
    ELSE {requests_get("index", hdrs)} \cup
         (IF /\ env.index # Fails
             /\ doc_link_of(env.index, filing_type) # PyNone
             /\ doc_link_of(env.index, filing_type) # Str(<<>>)
          THEN {requests_get("document", hdrs)} ELSE {})

NoRetrieve == [kind |-> "none"]

NoParse == [kind |-> "none"]

\* __init__
FetcherInit(t) ==
    /\ ticker = upper(t)
    /\ headers = InitialHeaders
    /\ sent = {}
    /\ cik = PyNone
    /\ company_name = PyNone
    /\ resolved = FALSE
    /\ files = EmptyDict
    /\ fpc = "idle"
    /\ ftypes = <<>>
    /\ fyears = 0
    /\ ti = 0
    /\ refs = <<>>
    /\ downloaded = <<>>
    /\ results = EmptyDict
    /\ lastRetrieve = NoRetrieve
    /\ lastParse = NoParse
    /\ retrieved = EmptyDict
    /\ retrievals = 0

\* _get_cik
_get_cik(outcome) ==
    /\ cik' = Resolve(ticker, outcome).cik
    /\ company_name' = Resolve(ticker, outcome).company_name
    /\ resolved' = TRUE
    /\ sent' = {requests_get("tickers", headers)}

\* a caller invokes _get_cik itself
GetCikCall ==
    /\ fpc = "idle"
    /\ \E outcome \in LookupOutcomes : _get_cik(outcome)
    /\ UNCHANGED <<ticker, headers, files, fpc, ftypes, fyears, ti, refs, downloaded,
                   results, lastRetrieve, lastParse, retrieved, retrievals>>

\* fetch_filings, lines 60-66
fetch_filings(filing_types, years) ==
    /\ fpc = "idle"
    /\ IF cik = PyNone \/ cik = Str(<<>>)
       THEN \E outcome \in LookupOutcomes : _get_cik(outcome)
       ELSE sent' = {} /\ UNCHANGED <<cik, company_name, resolved>>
    /\ ftypes' = filing_types
    /\ fyears' = years
    /\ ti' = 1
    /\ results' = EmptyDict
    /\ retrieved' = EmptyDict
    /\ refs' = <<>>
    /\ downloaded' = <<>>
    /\ lastRetrieve' = NoRetrieve
    /\ lastParse' = NoParse
    /\ fpc' = "types"
    /\ UNCHANGED <<ticker, headers, files, retrievals>>

FirstRefs == 3

\* line 102: what _parse_atom_feed returns for each feed, clock and look-back
ParsedFeeds ==
    [ feed \in Feeds, now \in Clocks, years \in YearsInputs |->
        _parse_atom_feed(feed, now, years) ]

\* filings[:3], line 112
FirstFilings(parsed) ==
    SubSeq(parsed, 1, IF Len(parsed) < FirstRefs THEN Len(parsed) ELSE FirstRefs)

\* a filing type ending by starting the results over: what the earlier
\* filing types gave is lost
TypeDone_alone(value) ==
    /\ results' = ftypes[ti] :> value
    /\ ti' = ti + 1
    /\ refs' = <<>>
    /\ downloaded' = <<>>
    /\ fpc' = "types"

\* results[filing_type] = value, and on to the next filing type (lines 70-71)
TypeDone(value) ==
    /\ results' = WriteFile(results, ftypes[ti], value)
    /\ ti' = ti + 1
    /\ refs' = <<>>
    /\ downloaded' = <<>>
    /\ fpc' = "types"

\* _fetch_filing_type up to the download loop (lines 78-112): the feed request
\* fails, or the feed is parsed and its first three references are kept
FetchFeed ==
    /\ fpc = "types"
    /\ ti <= Len(ftypes)
    /\ \/ TypeDone(<<>>) /\ lastParse' = NoParse /\ UNCHANGED retrieved
       \/ \E feed \in Feeds, now \in Clocks :
          \E parsed \in {ParsedFeeds[feed, now, fyears]} :
            LET first == FirstFilings(parsed)
            IN  /\ retrievals + Len(first) <= MaxRetrievals
                /\ lastParse' = [ kind |-> "returned", now |-> now, years |-> fyears,
                                  val |-> parsed ]
                /\ IF parsed = <<>> THEN TypeDone(<<>>) /\ UNCHANGED retrieved
                   ELSE /\ refs' = first
                        /\ downloaded' = <<>>
                        /\ fpc' = "downloads"
                        /\ retrieved' = WriteFile(retrieved, ftypes[ti], <<>>)
                        /\ UNCHANGED <<results, ti>>
    /\ sent' = {requests_get("feed", headers)}
    /\ UNCHANGED <<ticker, headers, cik, company_name, resolved, files, ftypes, fyears,
                   lastRetrieve, retrievals>>

\* one pass of the loop of lines 112-117: _download_filing returns a record,
\* which is appended, or raises, which ends _fetch_filing_type in its except
\* block (lines 121-123) with an empty list
Retrieve ==
    /\ fpc = "downloads"
    /\ refs # <<>>
    /\ \E env \in RetrieveEnvs :
         \E r \in {_download_filing(files, Head(refs), ftypes[ti], ticker, cik.str, env)} :
           /\ files' = r.files
           /\ sent' = DownloadRequests(ftypes[ti], env, headers)
           /\ retrievals' = retrievals + 1
           /\ lastParse' = NoParse
           /\ IF r.exc
              THEN /\ lastRetrieve' = [kind |-> "raised"]
                   /\ TypeDone(<<>>)
                   /\ UNCHANGED retrieved
              ELSE /\ lastRetrieve' = [ kind |-> "returned", val |-> r.val,
                                        course |-> r.course, filing |-> Head(refs),
                                        type |-> ftypes[ti] ]
                   /\ downloaded' = Append(downloaded, r.val)
                   /\ retrieved' = [retrieved EXCEPT ![ftypes[ti]] = Append(@, r.val)]
                   /\ refs' = Tail(refs)
                   /\ UNCHANGED <<results, ti, fpc>>
    /\ UNCHANGED <<ticker, headers, cik, company_name, resolved, ftypes, fyears>>

\* line 119: return downloaded
ReturnDownloaded ==
    /\ fpc = "downloads"
    /\ refs = <<>>
    /\ results' = WriteFile(results, ftypes[ti], downloaded)
    /\ ti' = ti + 1
    /\ downloaded' = <<>>
    /\ fpc' = "types"
    /\ lastParse' = NoParse
    /\ sent' = {}
    /\ UNCHANGED <<ticker, headers, cik, company_name, resolved, files, ftypes, fyears,
                   refs, lastRetrieve, retrieved, retrievals>>

\* line 73: return results
FetchReturn ==
    /\ fpc = "types"
    /\ ti > Len(ftypes)
    /\ fpc' = "done"
    /\ lastParse' = NoParse
    /\ sent' = {}
    /\ UNCHANGED <<ticker, headers, cik, company_name, resolved, files, ftypes, fyears,
                   ti, refs, downloaded, results, lastRetrieve, retrieved, retrievals>>

\* the caller has its results; the fetcher keeps its identity and the cache
FetchCallerResumes ==
    /\ fpc = "done"
    /\ fpc' = "idle"
    /\ ftypes' = <<>>
    /\ fyears' = 0
    /\ ti' = 0
    /\ results' = EmptyDict
    /\ retrieved' = EmptyDict
    /\ lastRetrieve' = NoRetrieve
    /\ lastParse' = NoParse
    /\ sent' = {}
    /\ UNCHANGED <<ticker, headers, cik, company_name, resolved, files, refs, downloaded,
                   retrievals>>


(* ------------------------ the state machines --------------------------- *)

vars == <<extractorVars, fetcherVars>>

\* both objects after construction; the extractor's calls never touch the
\* fetcher, which is constructed here for one ticker
Init ==
    /\ ExtractorInit
    /\ FetcherInit(<<"a","a","p","l">>)

\* both objects after construction, the fetcher for any ticker; the fetcher's
\* calls never touch the extractor, which is constructed here without an API key
InitFetch ==
    /\ ExtractorInit
    /\ ~client
    /\ \E t \in TickerInputs : FetcherInit(t)

\* the extractor's calls; the fetcher is not running
Next ==
    \/ pc = "idle" /\ (\E f \in FilingsInputs : process_all_documents(f))
                   /\ UNCHANGED fetcherVars
    \/ (\E c \in CategorySet : ExtractStart(c)) /\ UNCHANGED fetcherVars
    \/ (\E c \in CategorySet : ExtractFinish(c)) /\ UNCHANGED fetcherVars
    \/ extract_8k_data /\ UNCHANGED fetcherVars
    \/ (\E c \in CategorySet : TaskRaises(c)) /\ UNCHANGED fetcherVars
    \/ Merge /\ UNCHANGED fetcherVars
    \/ pc = "idle" /\ (\E c \in CategorySet, docs \in DocLists : ExtractCall(c, docs))
                   /\ UNCHANGED fetcherVars
    \/ ExtractReturn /\ UNCHANGED fetcherVars
    \/ CallerResumes /\ UNCHANGED fetcherVars

Spec == Init /\ [][Next]_vars

\* the fetcher's calls; the extractor is not running
NextFetch ==
    \/ GetCikCall /\ UNCHANGED extractorVars
    \/ fpc = "idle" /\ (\E filing_types \in TypeLists, years \in YearsInputs :
                          fetch_filings(filing_types, years))
                    /\ UNCHANGED extractorVars
    \/ FetchFeed /\ UNCHANGED extractorVars
    \/ Retrieve /\ UNCHANGED extractorVars
    \/ ReturnDownloaded /\ UNCHANGED extractorVars
    \/ FetchReturn /\ UNCHANGED extractorVars
    \/ FetchCallerResumes /\ UNCHANGED extractorVars

SpecFetch == InitFetch /\ [][NextFetch]_vars

(* ============================== claims ================================ *)

\* process_all_documents has returned
Processed == pc = "done" /\ call = "process_all_documents"

\* the exceptions an extraction can meet, by the branch that absorbed them
ExtractionRaised(c) ==
    taskNote[c] \in {"task_raised", "service_raised", "malformed_response", "no_path"}

FinancialFields ==
    { "revenue_current", "revenue_prior_1", "revenue_prior_2", "operating_income",
      "net_income_current", "net_income_prior_1", "total_assets", "total_liabilities",
      "shareholders_equity", "cash_equivalents", "total_debt", "shares_outstanding" }

\* the record a category's extraction yields when nothing fails
ExtractedRecord(c) ==
    CASE c = "10-K" -> FinancialRecord(taskResponse[c]).val
      [] c = "DEF 14A" -> GovernanceRecord(taskResponse[c]).val
      [] c = "8-K" -> [recent_events |-> RecentEvents(DocsOf(filings, "8-K"))]

\* C1: whatever the input, with or without a client, and whichever tasks
\* succeed, return defaults or raise, the dictionary process_all_documents
\* returns has exactly the keys '10k', 'proxy' and '8k', none bound to None.
C1_ThreeKeys ==
    Processed =>
        /\ DOMAIN ret = {"10k", "proxy", "8k"}
        /\ \A k \in DOMAIN ret : ret[k] # PyNone

\* a run with a client in which one task raised and another extracted
C1_Witness ==
    /\ Processed /\ client
    /\ \E c, d \in CategorySet : taskState[c] = "raised" /\ taskNote[d] = "extracted"

\* C2: with a client, when one category's extraction raises and another's
\* succeeds, process_all_documents returns a dictionary in which the second
\* category's key holds exactly what was extracted and the first category's
\* key holds its default record.
C2_FailureIsolated ==
    (Processed /\ client) =>
        \A c, d \in CategorySet :
            (ExtractionRaised(c) /\ taskNote[d] = "extracted") =>
                /\ ret # PyNone
                /\ ret[KeyOf(d)] = ExtractedRecord(d)
                /\ ret[KeyOf(c)] = DefaultOf(c)

\* the first task launched (10-K) raised and the governance data was extracted
C2_Witness ==
    /\ Processed /\ client
    /\ ExtractionRaised("10-K")
    /\ taskNote["DEF 14A"] = "extracted"
    /\ ret["proxy"] # _get_default_proxy_data

\* a step of the task of category c
TaskStep(c) == ExtractStart(c) \/ ExtractFinish(c) \/ (c = "8-K" /\ extract_8k_data)

\* C3: the merge happens only after every launched task has returned or
\* raised, and while the coordinator waits, a task that has not terminated
\* can still take its next step, whichever other tasks have raised.
C3_JoinAll ==
    /\ Processed => \A i \in 1..Len(tasks) : Terminated(tasks[i])
    /\ pc = "gather" =>
         \A i \in 1..Len(tasks) : ~Terminated(tasks[i]) => ENABLED TaskStep(tasks[i])

\* the coordinator still waits for a running task after another one raised
C3_Witness ==
    /\ pc = "gather"
    /\ \E c, d \in CategorySet : taskState[c] = "raised" /\ taskState[d] = "converted"

\* the argument {'10-K': [], 'DEF 14A': []}
BothEmpty == ("10-K" :> <<>>) @@ ("DEF 14A" :> <<>>)

AllDefaults ==
    ("10k" :> _get_default_10k_data) @@ ("proxy" :> _get_default_proxy_data)
        @@ ("8k" :> Default8k)

C5_NoDocumentsGiveDemo ==
    (Processed /\ \A cat \in DOMAIN filings : filings[cat] = <<>>) =>
        ret = demo_companies[AAPL]

\* a client is configured, categories were passed, and none has a document
C5_Witness ==
    /\ Processed /\ client
    /\ DOMAIN filings # {}
    /\ \A cat \in DOMAIN filings : filings[cat] = <<>>

MSFT == <<"M","S","F","T">>

MalformedResponses ==
    { [kind |-> "no_attr"], [kind |-> "not_dict"],
      Mapping([ board_members |-> <<Director("A", Num(12)), Str("B")>> ]),
      Mapping([ board_members |-> <<Director("A", PyNone)>> ]) }

ExtractionFailed(c) ==
    \/ taskNote[c] = "conversion_failed"
    \/ taskResponse[c] = ServiceRaises
    \/ taskResponse[c] \in MalformedResponses

\* C7: when the markup conversion returns None, the service call raises or
\* the response is malformed, the financial record returned has every field
\* 0, and the governance record returned has no board members and an
\* average_director_tenure of 0.
C7_FailureGivesZeros ==
    /\ (taskState["10-K"] = "returned" /\ ExtractionFailed("10-K")) =>
          /\ DOMAIN taskResult["10-K"]["10k"] = FinancialFields
          /\ \A f \in FinancialFields : taskResult["10-K"]["10k"][f] = Num(0)
    /\ (taskState["DEF 14A"] = "returned" /\ ExtractionFailed("DEF 14A")) =>
          /\ taskResult["DEF 14A"]["proxy"].board_members = <<>>
          /\ taskResult["DEF 14A"]["proxy"].average_director_tenure = Num(0)

\* the governance response held a tenure that is not a number
C7_Witness ==
    /\ taskState["DEF 14A"] = "returned"
    /\ taskResponse["DEF 14A"] = Mapping([ board_members |-> <<Director("A", PyNone)>> ])

\* the ticker is among the entries of a bulk index
Listed(tk, entries) ==
    \E i \in 1..Len(entries) : "ticker" \in DOMAIN entries[i] /\ upper(entries[i].ticker) = tk

\* C8: whatever the bulk-index request does (network error, bad status,
\* unparsable body, an index with or without the ticker), _get_cik leaves an
\* identifier and a name that are not None; when the request fails or the
\* ticker is not in the index they are '0000000000' and '<TICKER> Corp.'.
C8_ResolveAlwaysIdentifies ==
    /\ resolved => cik # PyNone /\ company_name # PyNone
    /\ \A outcome \in LookupOutcomes :
         LET identity == Resolve(ticker, outcome) IN
           /\ identity.cik # PyNone /\ identity.company_name # PyNone
           /\ outcome.kind # "index" \/ ~Listed(ticker, outcome.entries)
                => /\ identity.cik = Str(<<"0","0","0","0","0","0","0","0","0","0">>)
                   /\ identity.company_name = Str(ticker \o <<" ","C","o","r","p",".">>)

\* a lookup has left the sentinel identity on a fetcher whose ticker some
\* bulk index does not list
C8_Witness ==
    /\ resolved
    /\ fpc = "types"
    /\ cik = Str(<<"0","0","0","0","0","0","0","0","0","0">>)
    /\ company_name = Str(ticker \o <<" ","C","o","r","p",".">>)
    /\ \E outcome \in LookupOutcomes :
         outcome.kind = "index" /\ ~Listed(ticker, outcome.entries)

\* every _download_filing call so far returned a record
RetrieveReturns == lastRetrieve.kind # "raised"

\* what fetch_filings recorded for a filing type holds every record that
\* _download_filing returned for that type in this run
EarlierResultsKept ==
    \A t \in DOMAIN results \cap DOMAIN retrieved :
        \A i \in 1..Len(retrieved[t]) :
            i <= Len(results[t]) /\ results[t][i] = retrieved[t][i]

\* C9: every _download_filing call returns a record and raises nothing,
\* whatever fails in its steps, and a failure while retrieving one filing
\* never discards the records of the filings of the same type retrieved
\* before it.
C9_RetrieveNeverFails == RetrieveReturns /\ EarlierResultsKept

\* os.makedirs or the write of the except block failed on the second filing of
\* a type: the call raised, and the type's list is empty although the first
\* filing had been retrieved
C9_Witness ==
    /\ lastRetrieve.kind = "raised"
    /\ \E t \in DOMAIN results \cap DOMAIN retrieved :
         Len(retrieved[t]) = 1 /\ results[t] = <<>>

\* C10: every record that _download_filing returns has size > 0, for every
\* downloaded body as on the placeholder paths.
C10_SizePositive == lastRetrieve.kind = "returned" => lastRetrieve.val.size > 0

\* the document request answered with an empty body: the record returned has
\* size 0 and the empty document is in the cache
C10_Witness ==
    /\ lastRetrieve.kind = "returned"
    /\ lastRetrieve.val.size = 0
    /\ files[lastRetrieve.val.path] = Document(<<>>)

\* the last _download_filing call took a failure path and returned
PlaceholderReturned ==
    lastRetrieve.kind = "returned" /\ lastRetrieve.course \in {"no_link", "failed"}

\* C11: on every failure path of _download_filing (no matching row or link,
\* an exception while fetching or saving) the record returned has size 1000,
\* its url is the index-page URL, and a placeholder document naming the
\* filing type and the ticker is in the cache at the record's path.
C11_PlaceholderRecord ==
    PlaceholderReturned =>
        /\ lastRetrieve.val.size = 1000
        /\ lastRetrieve.val.url = IndexUrl(lastRetrieve.filing, cik.str)
        /\ lastRetrieve.val.path \in DOMAIN files
        /\ files[lastRetrieve.val.path].kind \in {"demo_filing", "demo_content"}
        /\ files[lastRetrieve.val.path].type = lastRetrieve.type
        /\ files[lastRetrieve.val.path].ticker = ticker

\* a request or a write failed for a reference that has no feed link: the
\* except block wrote its placeholder and returned the record
C11_Witness ==
    /\ PlaceholderReturned
    /\ lastRetrieve.course = "failed"
    /\ lastRetrieve.filing.url = PyNone
    /\ files[lastRetrieve.val.path].kind = "demo_content"

\* the calendar day of a date text that strptime accepts
DayOf(text) ==
    Ordinal(strptime(text).val.y, strptime(text).val.m, strptime(text).val.d)

\* C12: every reference _parse_atom_feed returns has a filing date (the
\* midnight that starts that day) not before now - 365 * years days.
C12_WithinLookback ==
    lastParse.kind = "returned" =>
        \A i \in 1..Len(lastParse.val) :
            LET cutoff_day == lastParse.now.day - 365 * lastParse.years
                day == DayOf(lastParse.val[i].date)
            IN  \/ day > cutoff_day
                \/ day = cutoff_day /\ lastParse.now.midnight

\* a reference filed exactly 365 days before a clock that shows midnight
C12_Witness ==
    /\ lastParse.kind = "returned"
    /\ lastParse.years = 1
    /\ \E i \in 1..Len(lastParse.val) :
         DayOf(lastParse.val[i].date) = lastParse.now.day - 365

\* C13: the references _parse_atom_feed returns are non-increasing by
\* calendar filing date, whatever the order of the entries and for every
\* date text the parser accepts.
C13_NewestFirst ==
    lastParse.kind = "returned" =>
        \A i, j \in 1..Len(lastParse.val) :
            i < j => DayOf(lastParse.val[i].date) >= DayOf(lastParse.val[j].date)

\* a feed with the dates '2024-02-01' and '2024-1-15': the sort compares the
\* texts, so the filing of 15 January comes before the one of 1 February
C13_Witness ==
    /\ lastParse.kind = "returned"
    /\ Len(lastParse.val) = 2
    /\ lastParse.val[1].date = <<"2","0","2","4","-","1","-","1","5">>
    /\ lastParse.val[2].date = <<"2","0","2","4","-","0","2","-","0","1">>
    /\ DayOf(lastParse.val[1].date) < DayOf(lastParse.val[2].date)

\* a filing type with every space turned into '_' and every '/' into '-'
Sanitized(filing_type) ==
    [ i \in 1..Len(filing_type) |->
        CASE filing_type[i] = " " -> "_"
          [] filing_type[i] = "/" -> "-"
          [] OTHER -> filing_type[i] ]

\* 'data/cache/<TICKER>/<TICKER>_<sanitized category>_<date>.html'
NamedPath(tk, filing_type, date) ==
    <<"d","a","t","a","/","c","a","c","h","e","/">> \o tk \o <<"/">> \o tk \o <<"_">>
        \o Sanitized(filing_type) \o <<"_">> \o date \o <<".","h","t","m","l">>

\* C14: every _download_filing call that returns has written at
\* 'data/cache/<TICKER>/<TICKER>_<sanitized category>_<date>.html', so calls
\* for the same ticker, filing type and date use the same path whatever
\* their outcomes.
C14_SamePath ==
    /\ lastRetrieve.kind = "returned" =>
          /\ lastRetrieve.val.path
                = NamedPath(ticker, lastRetrieve.type, lastRetrieve.filing.date)
          /\ lastRetrieve.val.path \in DOMAIN files
    /\ \A t \in DOMAIN retrieved :
          \A i, j \in 1..Len(retrieved[t]) :
              retrieved[t][i].date = retrieved[t][j].date
                  => retrieved[t][i].path = retrieved[t][j].path

\* two calls for DEF 14A filings of one date, the first a download and the
\* second a placeholder, returned the same path
C14_Witness ==
    /\ TDEF14A \in DOMAIN retrieved
    /\ Len(retrieved[TDEF14A]) = 2
    /\ retrieved[TDEF14A][1].date = retrieved[TDEF14A][2].date
    /\ retrieved[TDEF14A][1].path = retrieved[TDEF14A][2].path
    /\ retrieved[TDEF14A][1].size # 1000
    /\ retrieved[TDEF14A][2].size = 1000

\* C15: once a downloaded filing has been written at its cache path, no later
\* step changes or deletes what is at that path.
C15_WrittenOnce ==
    [][ \A p \in DOMAIN files :
          files[p].kind = "document" => p \in DOMAIN files' /\ files'[p] = files[p] ]_vars

\* in one run a filing was downloaded and the next reference, of the same
\* date, failed: the except block's placeholder replaced the download
C15_Witness ==
    \E t \in DOMAIN retrieved :
        /\ Len(retrieved[t]) = 2
        /\ lastRetrieve.kind = "returned"
        /\ lastRetrieve.course = "failed"
        /\ lastRetrieve.val = retrieved[t][2]
        /\ retrieved[t][1].path = retrieved[t][2].path
        /\ retrieved[t][1].url # retrieved[t][2].url
        /\ retrieved[t][1].size = 3
        /\ files[retrieved[t][1].path].kind = "demo_content"

\* C16: within one run of fetch_filings, two distinct references that were
\* retrieved (another filing type, or another accession number) are stored
\* at distinct cache paths.
C16_DistinctPaths ==
    \A t, u \in DOMAIN retrieved :
        \A i \in 1..Len(retrieved[t]), j \in 1..Len(retrieved[u]) :
            (t # u \/ retrieved[t][i].accession # retrieved[u][j].accession)
                => retrieved[t][i].path # retrieved[u][j].path

\* two filings of one type and one day, with different accession numbers,
\* were both downloaded: one path, and the cache holds the second document only
C16_Witness ==
    \E t \in DOMAIN retrieved :
        /\ Len(retrieved[t]) = 2
        /\ retrieved[t][1].accession # retrieved[t][2].accession
        /\ retrieved[t][1].path = retrieved[t][2].path
        /\ retrieved[t][1].size = 3
        /\ retrieved[t][2].size = 0
        /\ files[retrieved[t][1].path] = Document(<<>>)

(* ------------------ C17: what concurrent tasks share ------------------- *)

\* the first document's path of category c, when the category has one
FirstPath(c) ==
    IF DocsOf(filings, c) # <<>> /\ "path" \in DOMAIN DocsOf(filings, c)[1]
    THEN {DocsOf(filings, c)[1].path}
    ELSE {}

\* the files the task of category c has written: _html_to_markdown writes the
\* normalized text at the path it returns, and only for an .html document; the
\* 8-K task opens no file
TaskWrites(c) ==
    IF /\ c \in {"10-K", "DEF 14A"}
       /\ taskPath[c] # <<>>
       /\ \E q \in FirstPath(c) : endswith(lower(q), Dot_html)
    THEN {taskPath[c]}
    ELSE {}

\* the files the task of category c reads or writes: its document and the
\* path handed to the service
TaskTouches(c) ==
    IF c \in {"10-K", "DEF 14A"} /\ taskPath[c] # <<>>
    THEN FirstPath(c) \cup {taskPath[c]}
    ELSE {}

\* the document of c is the document of d, or its '.md' twin is the document
\* of d or the twin of the document of d
SamePlace(c, d) ==
    \E q \in FirstPath(c), r \in FirstPath(d) :
        \/ q = r
        \/ replace(q, Dot_html, Dot_md) = r
        \/ replace(q, Dot_html, Dot_md) = replace(r, Dot_html, Dot_md)

\* C17 as stated: while the tasks of one gather are running, no task writes a
\* file that another running task reads or writes
C17_NoSharedFile ==
    pc = "gather" =>
        \A c \in CategorySet : \A d \in CategorySet \ {c} :
            taskState[c] = "converted" /\ taskState[d] = "converted"
                => TaskWrites(c) \cap TaskTouches(d) = {}

\* C17, amended: while the tasks of one gather run, the extractor attributes
\* (client, current_ticker) are as they were when the tasks were created, and
\* a task writes a file that another task reads or writes only when the two
\* categories name the same document or documents whose '.md' twins coincide
C17_SharedOnlyWithSharedDocument ==
    pc = "gather" =>
        /\ client = atLaunch.client
        /\ current_ticker = atLaunch.current_ticker
        /\ \A c \in CategorySet : \A d \in CategorySet \ {c} :
              TaskWrites(c) \cap TaskTouches(d) # {} => SamePlace(c, d)

\* two running tasks have normalized different documents, one of them .html
C17_Witness ==
    /\ pc = "gather"
    /\ taskState["10-K"] = "converted"
    /\ taskState["DEF 14A"] = "converted"
    /\ TaskWrites("10-K") # {}
    /\ FirstPath("10-K") # FirstPath("DEF 14A")
    /\ TaskTouches("DEF 14A") # {}

(* ---------------- C18: every request is identified --------------------- *)

ContactString ==
    <<"A","c","t","i","v","i","s","t","I","n","t","e","l"," ","d","e","m","o","@","a","c","t","i","v","i","s","t",".","c","o","m">>

Identified(request) ==
    /\ "User-Agent" \in DOMAIN request.headers
    /\ request.headers["User-Agent"] = ContactString

\* C18: every request a step issues (ticker index, feed, index page,
\* document) carries the User-Agent header with the contact string
C18_RequestsIdentified ==
    \A request \in sent : Identified(request)

\* after a lookup and a feed, one retrieve call has requested the index page
\* and the document
C18_Witness ==
    /\ resolved
    /\ retrievals > 0
    /\ {request.to : request \in sent} = {"index", "document"}

(* ---------------- C19: the identity is resolved once ------------------- *)

\* C19 as stated: once _get_cik has run on the instance, no later step
\* changes cik or company_name, and no later step performs the lookup
C19_ResolvedOnce ==
    [][ resolved =>
          /\ cik' = cik
          /\ company_name' = company_name
          /\ \A request \in sent' : request.to # "tickers" ]_vars

\* a fetch_filings run resolved the identity and retrieved a filing, and a
\* later _get_cik call has performed the lookup again
C19_Witness ==
    /\ resolved
    /\ fpc = "idle"
    /\ retrievals > 0
    /\ \E request \in sent : request.to = "tickers"

(* ------------- C20: the average tenure and the board list -------------- *)

\* the arithmetic mean of tenure_years over a board list, 0 for an empty
\* list; a member without tenure_years counts as 0 years
MeanTenure(board_members) ==
    IF board_members = <<>> THEN Num(0)
    ELSE LET total == sum([i \in 1..Len(board_members) |->
                              Get(board_members[i], "tenure_years", Num(0))])
         IN  Ratio(total.n, total.d * Len(board_members))

\* C20 as stated: in every governance record a call returns (extracted,
\* default or demo), average_director_tenure is the mean of tenure_years over
\* the record's board_members, and 0 when the list is empty
C20_AverageIsMean ==
    (pc = "done" /\ "proxy" \in DOMAIN ret) =>
        ret["proxy"].average_director_tenure = MeanTenure(ret["proxy"].board_members)

\* process_all_documents has returned the demo governance record: one board
\* member of 12 years, and an average of 12.5
C20_Witness ==
    /\ Processed
    /\ ~client
    /\ Len(ret["proxy"].board_members) = 1
    /\ ret["proxy"].board_members[1].tenure_years = Num(12)
    /\ ret["proxy"].average_director_tenure = Ratio(25, 2)

(* -------------- C21: the financial record is all numbers --------------- *)

\* C21 as stated: every financial record a call returns has the twelve
\* fields, each a number; what the service did not supply (omitted or null)
\* is the number 0
C21_AllNumeric ==
    (pc = "done" /\ "10k" \in DOMAIN ret) =>
        /\ DOMAIN ret["10k"] = FinancialFields
        /\ \A f \in FinancialFields : IsNumber(ret["10k"][f])

\* the service answered total_assets: null, and the record was returned
C21_Witness ==
    /\ pc = "done"
    /\ "10k" \in DOMAIN ret
    /\ taskResponse["10-K"] = Mapping([ revenue_current |-> Num(50), total_assets |-> PyNone ])
    /\ ret["10k"].total_assets = PyNone

(* ------------- C22: the normalizer returns None, never raises ---------- *)

ConversionFails(env) == ~env.deps \/ ~env.read \/ ~env.convert \/ ~env.write

\* C22: for every document a task hands to _html_to_markdown and whatever
\* the conversion meets (missing dependencies, unreadable file, markup that
\* cannot be converted, failing write), the call returns and does not raise,
\* with None when a step failed; the task then returns its default record
C22_ConversionNeverRaises ==
    \A c \in {"10-K", "DEF 14A"} :
        /\ taskNote[c] # "conversion_raised"
        /\ taskNote[c] = "conversion_failed" =>
              /\ taskState[c] = "returned"
              /\ taskResult[c] = KeyOf(c) :> DefaultOf(c)
              /\ \A q \in FirstPath(c) : \A env \in ConvertEnvs :
                    \A r \in {_html_to_markdown(SourceFiles(q), q, env)} :
                        /\ ~r.exc
                        /\ ConversionFails(env) => r.val = PyNone

\* with a client, the conversion of the governance document returned None and
\* the task has returned
C22_Witness ==
    /\ client
    /\ taskNote["DEF 14A"] = "conversion_failed"
    /\ taskState["DEF 14A"] = "returned"

(* ------------- C23: where the normalized text is written --------------- *)

\* the path with its five-character extension replaced by '.md': the same
\* directory and the same base name
Alongside(path) == SubSeq(path, 1, Len(path) - Len(Dot_html)) \o Dot_md

AllSucceed == [deps |-> TRUE, read |-> TRUE, convert |-> TRUE, write |-> TRUE]

\* C23 as stated: for every document whose lower-cased path ends in '.html',
\* a successful normalization writes to the path alongside the source, which
\* is not the source path, and leaves the source document as it was
C23_WrittenAlongside ==
    \A c \in {"10-K", "DEF 14A"} : \A q \in FirstPath(c) :
        (taskPath[c] # <<>> /\ endswith(lower(q), Dot_html)) =>
            /\ taskPath[c] = Alongside(q)
            /\ taskPath[c] # q
            /\ _html_to_markdown(SourceFiles(q), q, AllSucceed).files[q] = SourceFiles(q)[q]

\* a document named '.HTML' was normalized: the path written is the source
\* path itself
C23_Witness ==
    /\ taskState["10-K"] = "converted"
    /\ \E q \in FirstPath("10-K") :
          /\ endswith(lower(q), Dot_html)
          /\ ~endswith(q, Dot_html)
          /\ taskPath["10-K"] = q

(* ------------- C24: a malformed entry is skipped on its own ------------ *)

\* the feed without its i-th entry
Without(feed, i) == SubSeq(feed, 1, i - 1) \o SubSeq(feed, i + 1, Len(feed))

\* the feeds that give the references the last _parse_atom_feed call returned
FeedsParsed ==
    IF lastParse.kind # "returned" THEN {}
    ELSE { feed \in Feeds : ParsedFeeds[feed, lastParse.now, lastParse.years] = lastParse.val }

\* for each feed, clock and look-back: whether taking any one malformed
\* entry out of the feed leaves the references returned as they are
SameWithoutMalformed ==
    [ feed \in Feeds, now \in Clocks, years \in YearsInputs |->
        \A i \in 1..Len(feed) :
            Malformed(feed[i]) =>
                _parse_atom_feed(Without(feed, i), now, years)
                    = _parse_atom_feed(feed, now, years) ]

\* C24: the references _parse_atom_feed returned are those it returns for
\* the same feed with any one malformed entry (no date, a date that does not
\* parse, no accession) taken out
C24_MalformedSkipped ==
    \A feed \in FeedsParsed : SameWithoutMalformed[feed, lastParse.now, lastParse.years]

\* a feed with malformed entries was parsed and gave references
C24_Witness ==
    /\ lastParse.kind = "returned"
    /\ lastParse.val # <<>>
    /\ \E feed \in FeedsParsed : \E i \in 1..Len(feed) : Malformed(feed[i])

(* ------------- C25: the references returned are well formed ------------ *)

\* \d{10}-\d{2}-\d{6}
MatchesAccession(text) ==
    /\ Len(text) = 20
    /\ \A i \in 1..20 : IF i \in {11, 14} THEN text[i] = "-" ELSE IsDigit(text[i])

\* C25 as stated: every reference _parse_atom_feed returns has a filing date
\* that is a calendar date and an accession of the form \d{10}-\d{2}-\d{6}
C25_WellFormed ==
    lastParse.kind = "returned" =>
        \A i \in 1..Len(lastParse.val) :
            /\ ~strptime(lastParse.val[i].date).exc
            /\ MatchesAccession(lastParse.val[i].accession)

\* a reference was returned whose accession is digits and dashes of another
\* shape
C25_Witness ==
    /\ lastParse.kind = "returned"
    /\ \E i \in 1..Len(lastParse.val) :
          /\ DigitsAndDashes(lastParse.val[i].accession)
          /\ ~MatchesAccession(lastParse.val[i].accession)

(* ------------- C26: which document a retrieve call downloads ----------- *)

\* the rows of a page's document table whose type label is the requested
\* type, case-insensitively
TypeRows(page, filing_type) ==
    IF ~page.table THEN {}
    ELSE { i \in 1..Len(page.rows) :
             page.rows[i].cells > 3 /\ upper(page.rows[i].type) = upper(filing_type) }

Least(S) == CHOOSE i \in S : \A j \in S : i <= j

\* the path a link stands for: what follows '?doc=' in a viewer link, the
\* link itself otherwise
LinkedPath(href) ==
    IF startswith(href, ViewerPrefix) THEN SplitLast(href, <<"?","d","o","c","=">>) ELSE href

\* the link of the first row of the requested type, None when there is no
\* such row or that row has no link
LinkOfFirstTypeRow(page, filing_type) ==
    IF TypeRows(page, filing_type) = {} THEN PyNone
    ELSE LET row == page.rows[Least(TypeRows(page, filing_type))]
         IN  IF "href" \in DOMAIN row THEN Str(LinkedPath(row.href)) ELSE PyNone

\* the link of the first row of the requested type that has a link
LinkOfFirstLinkedRow(page, filing_type) ==
    LET linked == { i \in TypeRows(page, filing_type) : "href" \in DOMAIN page.rows[i] }
    IN  IF linked = {} THEN PyNone ELSE Str(LinkedPath(page.rows[Least(linked)].href))

\* for each index page and filing type: the URL the call fetches the
\* document from, None when the page gives no link
DocumentUrls ==
    [ page \in IndexPages, filing_type \in FilingTypes |->
        IF doc_link_of(page, filing_type) = PyNone THEN PyNone
        ELSE Str(BASE_URL \o doc_link_of(page, filing_type).str) ]

\* the index pages that lead a call for filing_type to fetch url
PagesLeadingTo(filing_type, url) ==
    { page \in IndexPages : DocumentUrls[page, filing_type] = Str(url) }

Downloaded == lastRetrieve.kind = "returned" /\ lastRetrieve.course = "downloaded"

\* on no page does the scan pick another link than that of the first row of
\* the type
PicksFirstTypeRow ==
    \A page \in IndexPages, filing_type \in FilingTypes :
        doc_link_of(page, filing_type) # PyNone =>
            doc_link_of(page, filing_type) = LinkOfFirstTypeRow(page, filing_type)

\* on every page the scan picks the link of the first row of the type that
\* has a link
PicksFirstLinkedRow ==
    \A page \in IndexPages, filing_type \in FilingTypes :
        doc_link_of(page, filing_type) = LinkOfFirstLinkedRow(page, filing_type)

\* C26 as stated: the document downloaded is the one linked from the first
\* row whose type label is the requested type
C26_FirstTypeRow == Downloaded => PicksFirstTypeRow

\* C26, amended: the document downloaded is the one linked from the first
\* row of the requested type (case-insensitively) that has a link; the URL
\* fetched is the base URL plus the path inside a viewer link, or plus the
\* link itself; what is saved is the body of that request, never an index
\* page or a viewer URL's page
C26_FirstLinkedRow ==
    Downloaded =>
        /\ PicksFirstLinkedRow
        /\ PagesLeadingTo(lastRetrieve.type, lastRetrieve.val.url) # {}
        /\ ~startswith(lastRetrieve.val.url, BASE_URL \o ViewerPrefix)
        /\ lastRetrieve.val.url # IndexUrl(lastRetrieve.filing, cik.str)
        /\ files[lastRetrieve.val.path].kind = "document"

\* a proxy statement was downloaded through a viewer link
C26_Witness ==
    /\ Downloaded
    /\ lastRetrieve.type = TDEF14A
    /\ \E page \in PagesLeadingTo(TDEF14A, lastRetrieve.val.url) : \E i \in 1..Len(page.rows) :
          /\ "href" \in DOMAIN page.rows[i]
          /\ startswith(page.rows[i].href, ViewerPrefix)

(* ------------- C27: every kept reference is retrieved ------------------ *)

\* C27 as stated: the download loop of a filing type is left only when each
\* of the first min(3, n) references has had its retrieve call, in the feed's
\* order: the step that leaves it finds no reference, or makes the call for
\* the last one
C27_AllRetrieved ==
    [][ (fpc = "downloads" /\ fpc' # "downloads") => Len(refs) <= 1 ]_vars

\* a retrieve call raised and its filing type ended with an empty list
C27_Witness ==
    /\ lastRetrieve.kind = "raised"
    /\ fpc = "types"
    /\ ti > 1
    /\ results[ftypes[ti - 1]] = <<>>

(* ------------- C28: the labels of the event filings -------------------- *)

\* filings lists for extract_8k_data: the runs of the documents followed by
\* an entry that is no dictionary
EventInputs ==
    LET pool == DocPool \o << Str(<<"x">>) >>
    IN  { SubSeq(pool, a, b) : a \in 1..Len(pool), b \in 0..Len(pool) }

LabelOf(doc) ==
    MaterialEventOn \o (IF "date" \in DOMAIN doc THEN doc.date ELSE UnknownDate)

\* min(3, number of filings) labels in input order, or none when one of the
\* first three filings cannot be read
ExpectedEvents(docs) ==
    LET n == IF Len(docs) < 3 THEN Len(docs) ELSE 3
    IN  IF \E i \in 1..n : ~IsDict(docs[i]) THEN <<>>
        ELSE [i \in 1..n |-> LabelOf(docs[i])]

\* C28: extract_8k_data returns {'8k': {'recent_events': L}} with L the
\* labels of the first min(3, n) filings in input order ('unknown date' for a
\* filing without date), [] when building them raises; the task has asked
\* the service nothing and touched no file
C28_EventLabels ==
    taskState["8-K"] = "returned" =>
        /\ \A docs \in EventInputs : Events8k(docs) = ExpectedEvents(docs)
        /\ taskResult["8-K"] =
              "8k" :> [recent_events |-> ExpectedEvents(DocsOf(filings, "8-K"))]
        /\ taskResponse["8-K"] = PyNone
        /\ taskPath["8-K"] = <<>>
        /\ TaskTouches("8-K") = {}

\* the task returned one label for a filing that has no date
C28_Witness ==
    /\ taskState["8-K"] = "returned"
    /\ taskResult["8-K"]["8k"].recent_events = << MaterialEventOn \o UnknownDate >>

(* ------------- C29: the merge does not depend on the schedule ---------- *)

\* the dictionary the outcomes of the tasks determine, whatever the order in
\* which the tasks ended: under each key the record of the task that
\* returned it, the default where no task did
MergedOutcomes ==
    [ k \in ResultKeys |->
        IF \E c \in CategorySet : taskState[c] = "returned" /\ k \in DOMAIN taskResult[c]
        THEN LET c == CHOOSE x \in CategorySet :
                          taskState[x] = "returned" /\ k \in DOMAIN taskResult[x]
             IN  taskResult[c][k]
        ELSE _ensure_required_fields(EmptyDict)[k] ]

\* C29: when process_all_documents has gathered its tasks, the dictionaries
\* the tasks returned have pairwise disjoint keys, and the result is the one
\* the tasks' outcomes determine, in whatever order the tasks ran and ended
C29_ScheduleIndependent ==
    (Processed /\ tasks # <<>>) =>
        /\ \A c \in CategorySet : \A d \in CategorySet \ {c} :
              (taskState[c] = "returned" /\ taskState[d] = "returned") =>
                  DOMAIN taskResult[c] \cap DOMAIN taskResult[d] = {}
        /\ ret = MergedOutcomes

\* two tasks ran and both returned a record
C29_Witness ==
    /\ Processed
    /\ Len(tasks) = 2
    /\ taskState[tasks[1]] = "returned"
    /\ taskState[tasks[2]] = "returned"
    /\ taskNote[tasks[1]] = "extracted"
    /\ taskNote[tasks[2]] = "extracted"

(* ------------- C30: what fetch_filings returns ------------------------- *)

\* four references, as _parse_atom_feed returns them
LongList ==
    << [date |-> <<"2","0","2","4","-","0","5","-","0","1">>, accession |-> Acc2, url |-> PyNone],
       [date |-> <<"2","0","2","4","-","0","4","-","0","1">>, accession |-> Acc1, url |-> PyNone],
       [date |-> <<"2","0","2","4","-","0","3","-","0","1">>, accession |-> Acc2, url |-> PyNone],
       [date |-> <<"2","0","2","4","-","0","2","-","0","1">>, accession |-> Acc1, url |-> PyNone] >>

Requested == { ftypes[i] : i \in 1..Len(ftypes) }

\* C30: fetch_filings returns a dictionary whose keys are the requested
\* filing types, each with at most three records; the list of a type is
\* either every record its retrieve calls returned, in order, or empty (the
\* feed request or a retrieve call failed, or nothing was found), whatever
\* happened to the other types
C30_PerTypeResults ==
    fpc = "done" =>
        /\ DOMAIN results = Requested
        /\ \A t \in Requested :
              /\ Len(results[t]) <= 3
              /\ results[t] # <<>> => (t \in DOMAIN retrieved /\ results[t] = retrieved[t])
        /\ FirstFilings(LongList) = <<LongList[1], LongList[2], LongList[3]>>

\* two types were requested: the first gave a record, and a retrieve call of
\* the second raised, leaving its list empty
C30_Witness ==
    /\ fpc = "done"
    /\ Len(ftypes) = 2
    /\ results[ftypes[1]] # <<>>
    /\ results[ftypes[2]] = <<>>
    /\ lastRetrieve.kind = "raised"


====
